---------------------------- MODULE Spec2Model ----------------------------
(***************************************************************************)
(* A model of streamlit_app.py (lithorama.bookings): the token codec       *)
(* (TOKEN_DEV_RE, parse_dev_tokens, serialize_dev, dedupe_by_key), the     *)
(* per-cell reconciliation of the booking and expense forms, and the       *)
(* grid <-> per-month files <-> bookings ledger machinery.                 *)
(*                                                                         *)
(* Text is modelled character by character: a Python str is a sequence of  *)
(* one-character strings, so that splitting, stripping, the regular        *)
(* expressions and the "%g" number format are computed, not assumed.       *)
(* A Python float is modelled by the exact decimal it was parsed from, as  *)
(* a record [n, s] meaning n / 10^s with no trailing zero in the fraction. *)
(***************************************************************************)
EXTENDS Integers, Sequences, FiniteSets, TLC

(***************************************************************************)
(* Bounds of the model.                                                    *)
(***************************************************************************)
\* Longest token list handed to serialize_dev by the codec specification.
MaxToks == 2
\* Largest number of comma-separated segments of a decoded text.
MaxSegs == 2
\* Number of handlers run in one behaviour of the program.
MaxOps == 2
\* Number of those handlers that meet a failing write.
MaxFaults == 1

(***************************************************************************)
(* Program constants.                                                      *)
(***************************************************************************)
\* Significant digits of the "g" presentation type (f"{x:g}").
GPrecision == 6
\* "g" switches to exponent notation below 10^-4 ...
GMinExp == -4
\* ... and the year group of TOKEN_DEV_RE is \d{4}.
YearDigits == 4

(***************************************************************************)
(* Characters and text.                                                    *)
(***************************************************************************)
DigitChars == <<"0", "1", "2", "3", "4", "5", "6", "7", "8", "9">>

UpperChars ==
    <<"A", "B", "C", "D", "E", "F", "G", "H", "I", "J", "K", "L", "M",
      "N", "O", "P", "Q", "R", "S", "T", "U", "V", "W", "X", "Y", "Z">>

LowerChars ==
    <<"a", "b", "c", "d", "e", "f", "g", "h", "i", "j", "k", "l", "m",
      "n", "o", "p", "q", "r", "s", "t", "u", "v", "w", "x", "y", "z">>

Range(f) == {f[i] : i \in DOMAIN f}

DigitSet == Range(DigitChars)
UpperSet == Range(UpperChars)
LowerSet == Range(LowerChars)

\* \d of the regular expressions (the model's alphabet is ASCII).
IsDigit(c) == c \in DigitSet

\* [A-Z]
IsUpper(c) == c \in UpperSet

\* The whitespace str.strip() removes; the model's alphabet has the space only.
IsSpace(c) == c = " "

DigitVal(c) == (CHOOSE i \in 1..10 : DigitChars[i] = c) - 1

\* str.upper(), one character.
UpperChar(c) ==
    IF c \in LowerSet
    THEN UpperChars[CHOOSE i \in 1..26 : LowerChars[i] = c]
    ELSE c

\* str.upper()
Upper(s) == [i \in 1..Len(s) |-> UpperChar(s[i])]

\* None, as opposed to every str (a sequence of characters).
None == <<"None">>

AllDigits(s) == \A i \in 1..Len(s) : IsDigit(s[i])

RECURSIVE LStrip(_)
LStrip(s) == IF s # <<>> /\ IsSpace(Head(s)) THEN LStrip(Tail(s)) ELSE s

RECURSIVE RStrip(_)
RStrip(s) ==
    IF s # <<>> /\ IsSpace(s[Len(s)]) THEN RStrip(SubSeq(s, 1, Len(s) - 1)) ELSE s

\* str.strip()
Strip(s) == RStrip(LStrip(s))

\* Index of the first occurrence of character c in s, 0 when there is none.
RECURSIVE IndexFrom(_, _, _)
IndexFrom(s, c, i) ==
    IF i > Len(s) THEN 0 ELSE IF s[i] = c THEN i ELSE IndexFrom(s, c, i + 1)

IndexOf(s, c) == IndexFrom(s, c, 1)

\* str.split(c): always at least one segment.
RECURSIVE Split(_, _)
Split(s, c) ==
    LET i == IndexOf(s, c)
    IN  IF i = 0 THEN <<s>>
        ELSE <<SubSeq(s, 1, i - 1)>> \o Split(SubSeq(s, i + 1, Len(s)), c)

\* c.join(parts)
RECURSIVE Join(_, _)
Join(parts, c) ==
    IF parts = <<>> THEN <<>>
    ELSE IF Len(parts) = 1 THEN parts[1]
    ELSE parts[1] \o <<c>> \o Join(Tail(parts), c)

(***************************************************************************)
(* Numbers: int(), float() and the "g" format.                             *)
(***************************************************************************)
RECURSIVE Pow10(_)
Pow10(k) == IF k <= 0 THEN 1 ELSE 10 * Pow10(k - 1)

RECURSIVE NumDigits(_)
NumDigits(n) == IF n < 10 THEN 1 ELSE 1 + NumDigits(n \div 10)

\* str(int): decimal digits, no padding.
RECURSIVE IntStr(_)
IntStr(n) ==
    IF n < 10 THEN <<DigitChars[n + 1]>>
    ELSE IntStr(n \div 10) \o <<DigitChars[(n % 10) + 1]>>

\* int() of a string of digits.
RECURSIVE IntOf(_)
IntOf(ds) ==
    IF ds = <<>> THEN 0 ELSE 10 * IntOf(SubSeq(ds, 1, Len(ds) - 1)) + DigitVal(ds[Len(ds)])

RECURSIVE StripZeros(_)
StripZeros(n) == IF n > 0 /\ n % 10 = 0 THEN StripZeros(n \div 10) ELSE n

RECURSIVE Zeros(_)
Zeros(k) == IF k <= 0 THEN <<>> ELSE <<"0">> \o Zeros(k - 1)

\* The value n / 10^s without trailing zeros in its fraction.
RECURSIVE Dec(_, _)
Dec(n, s) == IF s > 0 /\ n % 10 = 0 THEN Dec(n \div 10, s - 1) ELSE [n |-> n, s |-> s]

\* The regular expression \d+(?:\.\d+)? matched against the whole of s.
IsNumber(s) ==
    LET i == IndexOf(s, ".")
    IN  IF i = 0 THEN s # <<>> /\ AllDigits(s)
        ELSE /\ i > 1 /\ i < Len(s)
             /\ AllDigits(SubSeq(s, 1, i - 1))
             /\ AllDigits(SubSeq(s, i + 1, Len(s)))

\* float(s) for s matching \d+(?:\.\d+)?
Float(s) ==
    LET i == IndexOf(s, ".")
    IN  IF i = 0 THEN Dec(IntOf(s), 0)
        ELSE Dec(IntOf(SubSeq(s, 1, i - 1) \o SubSeq(s, i + 1, Len(s))), Len(s) - i)

\* f"{v:g}": GPrecision significant digits, trailing zeros removed, exponent
\* notation when the decimal exponent is below GMinExp or at least GPrecision.
\* Rounding is half-even on the decimal value, which is what Python does
\* whenever the float holds the decimal exactly (every integer of the model).
FormatG(v) ==
    IF v.n = 0 THEN <<"0">>
    ELSE
      LET D     == NumDigits(v.n)
          k     == IF D > GPrecision THEN D - GPrecision ELSE 0
          q0    == v.n \div Pow10(k)
          r     == v.n % Pow10(k)
          half  == 5 * Pow10(k - 1)
          up    == k > 0 /\ (r > half \/ (r = half /\ q0 % 2 = 1))
          q1    == IF up THEN q0 + 1 ELSE q0
          carry == k > 0 /\ q1 = Pow10(GPrecision)
          X     == (D - 1 - v.s) + (IF carry THEN 1 ELSE 0)
          ds    == IntStr(StripZeros(q1))
          L     == Len(ds)
          absX  == IF X < 0 THEN -X ELSE X
      IN  IF X < GMinExp \/ X >= GPrecision
          THEN <<ds[1]>> \o (IF L > 1 THEN <<".">> \o Tail(ds) ELSE <<>>)
               \o <<"e", (IF X < 0 THEN "-" ELSE "+")>>
               \o (IF absX < 10 THEN <<"0">> ELSE <<>>) \o IntStr(absX)
          ELSE IF X >= 0
          THEN IF L <= X + 1 THEN ds \o Zeros(X + 1 - L)
               ELSE SubSeq(ds, 1, X + 1) \o <<".">> \o SubSeq(ds, X + 2, L)
          ELSE <<"0", ".">> \o Zeros(-X - 1) \o ds

(***************************************************************************)
(* Months, floors, days (display names are transliterated to ASCII).       *)
(***************************************************************************)
MONTHS ==
    <<"Ianouarios", "Fevrouarios", "Martios", "Aprilios", "Maios", "Iounios",
      "Ioulios", "Avgoustos", "Septemvrios", "Oktovrios", "Noemvrios", "Dekemvrios">>

JANUARY   == <<"J", "A", "N", "U", "A", "R", "Y">>
FEBRUARY  == <<"F", "E", "B", "R", "U", "A", "R", "Y">>
MARCH     == <<"M", "A", "R", "C", "H">>
APRIL     == <<"A", "P", "R", "I", "L">>
MAY       == <<"M", "A", "Y">>
JUNE      == <<"J", "U", "N", "E">>
JULY      == <<"J", "U", "L", "Y">>
AUGUST    == <<"A", "U", "G", "U", "S", "T">>
SEPTEMBER == <<"S", "E", "P", "T", "E", "M", "B", "E", "R">>
OCTOBER   == <<"O", "C", "T", "O", "B", "E", "R">>
NOVEMBER  == <<"N", "O", "V", "E", "M", "B", "E", "R">>
DECEMBER  == <<"D", "E", "C", "E", "M", "B", "E", "R">>

MonthCodes ==
    <<JANUARY, FEBRUARY, MARCH, APRIL, MAY, JUNE,
      JULY, AUGUST, SEPTEMBER, OCTOBER, NOVEMBER, DECEMBER>>

\* MONTH_EN[month_gr]
MONTH_EN(month_gr) == MonthCodes[CHOOSE i \in 1..12 : MONTHS[i] = month_gr]

\* The twelve canonical month codes.
CanonicalMonths == Range(MonthCodes)

(***************************************************************************)
(* The token codec.                                                        *)
(***************************************************************************)
EX == <<"E", "X">>

NoMatch == [matched |-> FALSE, g1 |-> <<>>, g2 |-> <<>>, g3 |-> <<>>, g4 |-> None]

\* Length of the longest prefix of s made of [A-Z].
RECURSIVE UpperRun(_)
UpperRun(s) == IF s # <<>> /\ IsUpper(Head(s)) THEN 1 + UpperRun(Tail(s)) ELSE 0

\* TOKEN_DEV_RE.match(t): ^(\d+(?:\.\d+)?):(\d{4});([A-Z]+)(?:;(EX))?$
\* Group 1 holds no ":", so it ends at the first ":"; [A-Z]+ holds no ";", so
\* it is the whole run of upper-case letters and what follows it is either the
\* end of the text or ";EX" and the end. (The alphabet has no newline, which
\* "$" would allow at the very end.)
TOKEN_DEV_RE(t) ==
    LET i    == IndexOf(t, ":")
        g1   == SubSeq(t, 1, i - 1)
        rest == SubSeq(t, i + 1, Len(t))
        g2   == SubSeq(rest, 1, YearDigits)
        tail == SubSeq(rest, YearDigits + 2, Len(rest))
        u    == UpperRun(tail)
        g3   == SubSeq(tail, 1, u)
        end  == SubSeq(tail, u + 1, Len(tail))
    IN  IF /\ i > 0
           /\ IsNumber(g1)
           /\ Len(rest) >= YearDigits + 2
           /\ AllDigits(g2)
           /\ rest[YearDigits + 1] = ";"
           /\ u >= 1
           /\ end \in {<<>>, <<";">> \o EX}
        THEN [matched |-> TRUE, g1 |-> g1, g2 |-> g2, g3 |-> g3,
              g4 |-> IF end = <<>> THEN None ELSE EX]
        ELSE NoMatch

\* A token dict: {"price", "year", "month_en", "kind"}.
Token(price, year, month_en, kind) ==
    [price |-> price, year |-> year, month_en |-> month_en, kind |-> kind]

RECURSIVE ParseSegments(_)
ParseSegments(segs) ==
    IF segs = <<>> THEN <<>>
    ELSE LET m == TOKEN_DEV_RE(Strip(Head(segs)))
         IN  (IF m.matched
              THEN <<Token(Float(m.g1), IntOf(m.g2), Upper(m.g3),
                           IF m.g4 # None /\ Upper(m.g4) = EX THEN "EX" ELSE "REV")>>
              ELSE <<>>)
             \o ParseSegments(Tail(segs))

\* A variant that gives up on the whole cell at the first malformed segment.
parse_dev_tokens_strict(cell) ==
    IF cell = None \/ cell = <<>> THEN <<>>
    ELSE LET segs == Split(cell, ",")
         IN  IF \A i \in 1..Len(segs) : TOKEN_DEV_RE(segs[i]).matched
             THEN ParseSegments(segs) ELSE <<>>

\* parse_dev_tokens(cell): [] for an empty or non-str cell, otherwise the tokens
\* of the comma-separated segments that match TOKEN_DEV_RE, in order.
parse_dev_tokens(cell) ==
    IF cell = None \/ cell = <<>> THEN <<>>
    ELSE ParseSegments(Split(cell, ","))

\* One token of serialize_dev.
SerializeToken(e) ==
    FormatG(e.price) \o <<":">> \o IntStr(e.year) \o <<";">> \o Upper(e.month_en)
    \o (IF e.kind = "EX" THEN <<";">> \o EX ELSE <<>>)

\* serialize_dev(toks); every token of the model has the three keys the
\* generator asks for, and a dict without "kind" is a record of kind "REV".
serialize_dev(toks) == Join([i \in 1..Len(toks) |-> SerializeToken(toks[i])], ",")

\* The key dedupe_by_key uses: (int(e["year"]), e["month_en"].upper()).
DedupeKey(e) == <<e.year, Upper(e.month_en)>>

\* A variant of dedupe_by_key in which the first token of a key wins.
dedupe_by_key_first(toks) ==
    LET first == SelectSeq([i \in 1..Len(toks) |-> i],
                   LAMBDA i : \A j \in 1..(i - 1) : DedupeKey(toks[j]) # DedupeKey(toks[i]))
    IN  [n \in 1..Len(first) |-> toks[first[n]]]

\* dedupe_by_key(toks): a dict keyed by DedupeKey, so each key keeps the place
\* of its first token and the value of its last.
dedupe_by_key(toks) ==
    LET first == SelectSeq([i \in 1..Len(toks) |-> i],
                   LAMBDA i : \A j \in 1..(i - 1) : DedupeKey(toks[j]) # DedupeKey(toks[i]))
        last(i) == CHOOSE j \in i..Len(toks) :
                     /\ DedupeKey(toks[j]) = DedupeKey(toks[i])
                     /\ \A k \in (j + 1)..Len(toks) : DedupeKey(toks[k]) # DedupeKey(toks[i])
    IN  [n \in 1..Len(first) |-> toks[last(first[n])]]

\* display_price_for_year_month(cell_text, year, month_en): the price of the
\* first token of that year and month, as text, or "".
display_price_for_year_month(cell_text, year, month_en) ==
    LET toks == parse_dev_tokens(cell_text)
        hits == SelectSeq(toks, LAMBDA e : e.year = year /\ Upper(e.month_en) = Upper(month_en))
    IN  IF hits = <<>> THEN <<>> ELSE FormatG(hits[1].price)

(***************************************************************************)
(* The entry handlers, one cell at a time.                                 *)
(***************************************************************************)
RECURSIVE DigitRun(_)
DigitRun(s) == IF s # <<>> /\ IsDigit(Head(s)) THEN 1 + DigitRun(Tail(s)) ELSE 0

\* re.search(r"\d+(?:\.\d+)?", s).group(0): the leftmost number of s, or None.
SearchNumber(s) ==
    IF \A i \in 1..Len(s) : ~IsDigit(s[i]) THEN None
    ELSE LET i    == CHOOSE k \in 1..Len(s) :
                       IsDigit(s[k]) /\ \A j \in 1..(k - 1) : ~IsDigit(s[j])
             n    == DigitRun(SubSeq(s, i, Len(s)))
             rest == SubSeq(s, i + n, Len(s))
             f    == IF rest # <<>> /\ Head(rest) = "." THEN DigitRun(Tail(rest)) ELSE 0
         IN  SubSeq(s, i, i + n - 1 + (IF f > 0 THEN 1 + f ELSE 0))

\* A variant of the booking handler in which a blank entry clears the slot.
BookingCellUpdateBlankClears(cell, v, current_year, month_gr) ==
    LET m_en == MONTH_EN(month_gr)
        kept == SelectSeq(parse_dev_tokens(cell),
                  LAMBDA e : ~(e.year = current_year /\ Upper(e.month_en) = m_en))
        mnum == SearchNumber(Strip(v))
    IN  IF mnum = None THEN serialize_dev(dedupe_by_key(kept))
        ELSE serialize_dev(dedupe_by_key(
               Append(kept, Token(Float(mnum), current_year, m_en, "REV"))))

\* The body of the booking form's loop for one cell (d, colname) whose text is
\* `cell` and whose input is `v`: the cell's new text.
BookingCellUpdate(cell, v, current_year, month_gr) ==
    LET new_text == Strip(v)
        mnum     == SearchNumber(new_text)
        m_en     == MONTH_EN(month_gr)
        existing == parse_dev_tokens(cell)
        kept     == SelectSeq(existing,
                      LAMBDA e : ~(e.year = current_year /\ Upper(e.month_en) = m_en))
    IN  IF new_text = <<>> THEN cell
        ELSE IF mnum = None THEN cell
        ELSE serialize_dev(dedupe_by_key(
               Append(kept, Token(Float(mnum), current_year, m_en, "REV"))))

\* The body of the expense form's loop for one cell (month_gr, floor).
ExpenseCellUpdate(cell, v, exp_year, month_gr) ==
    LET val_s == Strip(v)
        mnum  == SearchNumber(val_s)
    IN  IF val_s = <<>> THEN cell
        ELSE IF mnum = None THEN cell
        ELSE SerializeToken(Token(Float(mnum), exp_year, MONTH_EN(month_gr), "EX"))

(***************************************************************************)
(* The grid, the per-month files and the bookings ledger.                  *)
(***************************************************************************)
\* The years of the year selectors.
YEARS == <<2022, 2023, 2024, 2025>>

FLOORS_DISPLAY == <<"Isogeio", "A", "B">>

EXPENSE_FLOORS_DISPLAY == <<"Isogeio", "A", "B", "Genika">>

\* The part of the 12 x 3 x 31 grid the model keeps: two months, two floors,
\* the first day and the 31st (which April does not have). Cells are handled
\* one by one everywhere in the program, so the other cells would only repeat
\* these.
GridMonths == <<"Aprilios", "Maios">>
GridFloors == <<"Isogeio", "A">>
GridDays   == <<1, 31>>

\* A cell of a year's grid: (month, floor, day); its column is "month floor".
Cells == {<<m, f, d>> : m \in Range(GridMonths), f \in Range(GridFloors), d \in Range(GridDays)}

\* A cell of a month file: (floor, day).
FileCells == {<<f, d>> : f \in Range(GridFloors), d \in Range(GridDays)}

\* empty_grid()
empty_grid == [c \in Cells |-> <<>>]

\* A dev_{year}_{MONTH}.xlsx that does not exist.
NoFile == [exists |-> FALSE, cells |-> [c \in FileCells |-> <<>>]]

\* A year whose grid is not in st.session_state.
NotLoaded == [loaded |-> FALSE, grid |-> empty_grid]

\* str() of an empty spreadsheet cell read back by pandas (NaN).
NaNText == <<"n", "a", "n">>

\* Python's order of the month names (by code point of the Greek names): the
\* order sort_values gives the "month" column.
MonthsSorted ==
    <<"Aprilios", "Avgoustos", "Dekemvrios", "Ianouarios", "Ioulios", "Iounios",
      "Maios", "Martios", "Noemvrios", "Oktovrios", "Septemvrios", "Fevrouarios">>

\* Python's order of the floor names.
FloorsSorted == <<"A", "B", "Genika", "Isogeio">>

RankIn(seq, x) == CHOOSE i \in 1..Len(seq) : seq[i] = x

\* [p.strip() for p in val.split(",") if p and p.strip()]
RECURSIVE StrippedParts(_)
StrippedParts(segs) ==
    IF segs = <<>> THEN <<>>
    ELSE (IF Strip(Head(segs)) # <<>> THEN <<Strip(Head(segs))>> ELSE <<>>)
         \o StrippedParts(Tail(segs))

\* The inner loop of load_grid_df_for_year over the parts of one cell: a bare
\* number becomes a token of the file's year and month (its digits kept as
\* typed); a full token is kept when its year and month are the file's, and
\* is rewritten without its kind.
RECURSIVE LoadTokens(_, _, _)
LoadTokens(parts, year, m_en) ==
    IF parts = <<>> THEN <<>>
    ELSE LET p   == Head(parts)
             mm2 == TOKEN_DEV_RE(p)
         IN  (IF IsNumber(p)
              THEN <<p \o <<":">> \o IntStr(year) \o <<";">> \o m_en>>
              ELSE IF mm2.matched /\ IntOf(mm2.g2) = year /\ Upper(mm2.g3) = m_en
              THEN <<FormatG(Float(mm2.g1)) \o <<":">> \o IntStr(IntOf(mm2.g2))
                     \o <<";">> \o Upper(mm2.g3)>>
              ELSE <<>>)
             \o LoadTokens(Tail(parts), year, m_en)

\* load_grid_df_for_year, one cell of the file of (year, m_en).
LoadCell(text, year, m_en) ==
    LET val == Strip(text)
    IN  IF val = <<>> THEN <<>>
        ELSE serialize_dev(dedupe_by_key(parse_dev_tokens(
               Join(LoadTokens(StrippedParts(Split(val, ",")), year, m_en), ","))))

\* load_grid_df_for_year(year): the grid read from the month files of the year.
load_grid_df_for_year(fs, year) ==
    [c \in Cells |->
        IF fs[<<year, c[1]>>].exists
        THEN LoadCell(fs[<<year, c[1]>>].cells[<<c[2], c[3]>>], year, MONTH_EN(c[1]))
        ELSE <<>>]

\* save_grid_df_for_year, one cell of column (m_en, floor): what is written to
\* the month file.
SaveCell(text, year, m_en) ==
    LET raw  == Strip(text)
        mnum == SearchNumber(raw)
        toks == SelectSeq(parse_dev_tokens(raw),
                  LAMBDA e : e.year = year /\ Upper(e.month_en) = m_en)
    IN  IF raw = <<>> THEN <<>>
        ELSE IF mnum # None /\ Strip(raw) = mnum
        THEN FormatG(Float(mnum)) \o <<":">> \o IntStr(year) \o <<";">> \o m_en
        ELSE serialize_dev(dedupe_by_key(toks))

\* The sheet "grid" written to dev_{year}_{m_en}.xlsx.
SaveMonth(grid, year, m) ==
    [exists |-> TRUE,
     cells  |-> [c \in FileCells |-> SaveCell(grid[<<m, c[1], c[2]>>], year, MONTH_EN(m))]]

\* The month files after the loop of save_grid_df_for_year has written the
\* first n months of the year.
WriteMonths(fs, grid, year, n) ==
    [k \in DOMAIN fs |->
        IF k[1] = year /\ RankIn(GridMonths, k[2]) <= n
        THEN SaveMonth(grid, year, k[2]) ELSE fs[k]]

Row(year, floor, month, day, price) ==
    [year |-> year, floor |-> floor, month |-> month, day |-> day, price |-> price]

\* sort_values(["year", "month", "floor", "day"]): the order of two rows.
RowBefore(a, b) ==
    LET ka == <<a.year, RankIn(MonthsSorted, a.month), RankIn(FloorsSorted, a.floor), a.day>>
        kb == <<b.year, RankIn(MonthsSorted, b.month), RankIn(FloorsSorted, b.floor), b.day>>
    IN  \E i \in 1..4 : ka[i] < kb[i] /\ \A j \in 1..(i - 1) : ka[j] = kb[j]

\* r put into a sorted sequence, after the rows that are not after it.
RECURSIVE InsertRow(_, _)
InsertRow(sorted, r) ==
    IF sorted = <<>> THEN <<r>>
    ELSE IF RowBefore(r, Head(sorted)) THEN <<r>> \o sorted
    ELSE <<Head(sorted)>> \o InsertRow(Tail(sorted), r)

\* A stable sort of the rows.
RECURSIVE SortRows(_)
SortRows(rows) ==
    IF rows = <<>> THEN <<>>
    ELSE InsertRow(SortRows(SubSeq(rows, 1, Len(rows) - 1)), rows[Len(rows)])

\* The rows of one cell of one month file: one per token of the cell.
CellRows(text, floor, month_gr, day) ==
    LET val  == IF text = <<>> THEN NaNText ELSE text
        toks == dedupe_by_key(parse_dev_tokens(val))
    IN  [i \in 1..Len(toks) |-> Row(toks[i].year, floor, month_gr, day, toks[i].price)]

\* The cells of a month file in the order of the loops (floor, then day).
FileCellOrder ==
    <<<<GridFloors[1], GridDays[1]>>, <<GridFloors[1], GridDays[2]>>,
      <<GridFloors[2], GridDays[1]>>, <<GridFloors[2], GridDays[2]>>>>

RECURSIVE FileRows(_, _, _)
FileRows(file, month_gr, cs) ==
    IF cs = <<>> THEN <<>>
    ELSE CellRows(file.cells[Head(cs)], Head(cs)[1], month_gr, Head(cs)[2])
         \o FileRows(file, month_gr, Tail(cs))

\* The records of the files in the order glob() lists them.
RECURSIVE ScanFiles(_, _)
ScanFiles(fs, keys) ==
    IF keys = <<>> THEN <<>>
    ELSE (IF fs[Head(keys)].exists
          THEN FileRows(fs[Head(keys)], Head(keys)[2], FileCellOrder) ELSE <<>>)
         \o ScanFiles(fs, Tail(keys))

\* The (year, month) keys of the month files, in ascending and in descending
\* order: the two orders glob() is given in the model.
FileKeysAsc ==
    <<<<2022, "Aprilios">>, <<2022, "Maios">>, <<2023, "Aprilios">>, <<2023, "Maios">>,
      <<2024, "Aprilios">>, <<2024, "Maios">>, <<2025, "Aprilios">>, <<2025, "Maios">>>>

FileKeysDesc == [i \in 1..Len(FileKeysAsc) |-> FileKeysAsc[Len(FileKeysAsc) + 1 - i]]

\* A variant of the rebuild that leaves the records in the order of the scan.
LedgerRebuildUnsorted(fs, keys) == ScanFiles(fs, keys)

\* The bookings frame save_grid_df_for_year builds from all the month files.
LedgerRebuild(fs, keys) == SortRows(ScanFiles(fs, keys))

(***************************************************************************)
(* monthly_expense.xlsx and the combined workbook bookings.xlsx.           *)
(***************************************************************************)
\* The cells of a year's expense sheet the model keeps, (month, floor), in the
\* order build_expenses_long visits them.
ExpCellOrder ==
    <<<<"Aprilios", "A">>, <<"Aprilios", "Genika">>, <<"Maios", "A">>, <<"Maios", "Genika">>>>

ExpCells == Range(ExpCellOrder)

EmptySheet == [c \in ExpCells |-> <<>>]

\* monthly_expense.xlsx is the sequence of its sheets, [year, cells]; the empty
\* sequence is the file that does not exist.
HasSheet(book, year) == \E i \in 1..Len(book) : book[i].year = year

SheetAt(book, year) == CHOOSE i \in 1..Len(book) : book[i].year = year

\* load_monthly_expense_df(year)
load_monthly_expense_df(book, year) ==
    IF HasSheet(book, year) THEN book[SheetAt(book, year)].cells ELSE EmptySheet

\* save_monthly_expense_df(year, df): the sheet of the year is replaced in
\* place, or added after the others.
save_monthly_expense_df(year, df, book, fault) ==
    IF fault = "expenses" THEN [ok |-> FALSE, book |-> book]
    ELSE [ok   |-> TRUE,
          book |-> IF HasSheet(book, year)
                   THEN [book EXCEPT ![SheetAt(book, year)].cells = df]
                   ELSE Append(book, [year |-> year, cells |-> df])]

ExpenseRow(year, floor, month, price, price_token) ==
    [year |-> year, floor |-> floor, month |-> month, price |-> price,
     price_token |-> price_token]

\* The loop of build_expenses_long over the cells of one sheet; y is the loop's
\* variable y, which a full expense token rebinds to its own year.
RECURSIVE SheetRecs(_, _, _)
SheetRecs(cells, cs, y) ==
    IF cs = <<>> THEN <<>>
    ELSE LET m_gr     == Head(cs)[1]
             f        == Head(cs)[2]
             raw      == cells[Head(cs)]
             val      == Strip(IF raw = <<>> THEN NaNText ELSE raw)
             month_en == MONTH_EN(m_gr)
             mm       == TOKEN_DEV_RE(val)
             hit      == /\ ~IsNumber(val)
                         /\ mm.matched
                         /\ mm.g4 # None /\ Upper(mm.g4) = EX
                         /\ Upper(mm.g3) = month_en
             y2       == IF hit THEN IntOf(mm.g2) ELSE y
             row      == IF IsNumber(val)
                         THEN <<ExpenseRow(y, f, m_gr, Float(val),
                                  FormatG(Float(val)) \o <<":">> \o IntStr(y)
                                  \o <<";">> \o month_en \o <<";">> \o EX)>>
                         ELSE IF hit
                         THEN <<ExpenseRow(y2, f, m_gr, Float(mm.g1),
                                  FormatG(Float(mm.g1)) \o <<":">> \o IntStr(y2)
                                  \o <<";">> \o Upper(mm.g3) \o <<";">> \o EX)>>
                         ELSE <<>>
         IN  row \o SheetRecs(cells, Tail(cs), y2)

RECURSIVE BookRecs(_)
BookRecs(book) ==
    IF book = <<>> THEN <<>>
    ELSE SheetRecs(Head(book).cells, ExpCellOrder, Head(book).year) \o BookRecs(Tail(book))

\* sort_values(["year", "month", "floor"])
ExpenseBefore(a, b) ==
    LET ka == <<a.year, RankIn(MonthsSorted, a.month), RankIn(FloorsSorted, a.floor)>>
        kb == <<b.year, RankIn(MonthsSorted, b.month), RankIn(FloorsSorted, b.floor)>>
    IN  \E i \in 1..3 : ka[i] < kb[i] /\ \A j \in 1..(i - 1) : ka[j] = kb[j]

RECURSIVE InsertExpense(_, _)
InsertExpense(sorted, r) ==
    IF sorted = <<>> THEN <<r>>
    ELSE IF ExpenseBefore(r, Head(sorted)) THEN <<r>> \o sorted
    ELSE <<Head(sorted)>> \o InsertExpense(Tail(sorted), r)

RECURSIVE SortExpenses(_)
SortExpenses(rows) ==
    IF rows = <<>> THEN <<>>
    ELSE InsertExpense(SortExpenses(SubSeq(rows, 1, Len(rows) - 1)), rows[Len(rows)])

\* build_expenses_long()
build_expenses_long(book) == SortExpenses(BookRecs(book))

\* bookings.xlsx that does not exist.
NoLedger == [exists |-> FALSE, bookings |-> <<>>, expenses |-> <<>>]

\* write_combined_excel(bookings_df): the new bookings.xlsx. When the write
\* raises, the exception is swallowed and the file stays as it was.
write_combined_excel(bookings_df, D, fault) ==
    IF fault = "ledger" THEN D.book
    ELSE [exists   |-> TRUE,
          bookings |-> bookings_df,
          expenses |-> build_expenses_long(D.exp)]

\* load_bookings_df()
load_bookings_df(ledger) == IF ledger.exists THEN ledger.bookings ELSE <<>>

\* A variant of the refresh that passes no bookings.
RefreshCombinedWithoutBookings(D, fault) == write_combined_excel(<<>>, D, fault)

\* The refresh of the combined workbook after a save of expenses:
\* write_combined_excel(load_bookings_df()).
RefreshCombined(D, fault) == write_combined_excel(load_bookings_df(D.book), D, fault)

\* The second half of save_grid_df_for_year, once the month files dev2 are
\* written: the ledger is rebuilt from them and the combined workbook written.
SaveLedger(dev2, D, fault, keys) ==
    [ok   |-> TRUE,
     dev  |-> dev2,
     book |-> write_combined_excel(LedgerRebuild(dev2, keys), D, fault)]

\* save_grid_df_for_year(grid, year) on the disk D = [dev, book, exp], with the
\* files listed in the order `keys`. The write of a month file may raise: of
\* the first one, or of a later one once the earlier months are written.
save_grid_df_for_year(grid, year, D, fault, keys) ==
    IF fault = "first_month" THEN [ok |-> FALSE, dev |-> D.dev, book |-> D.book]
    ELSE IF fault = "later_month"
    THEN [ok |-> FALSE, dev |-> WriteMonths(D.dev, grid, year, 1), book |-> D.book]
    ELSE SaveLedger(WriteMonths(D.dev, grid, year, Len(GridMonths)), D, fault, keys)

\* _ensure_session_grid(year), and the same three lines before each handler.
EnsureSessionGrid(ss, fs, year) ==
    IF ss[year].loaded THEN ss
    ELSE [ss EXCEPT ![year] = [loaded |-> TRUE, grid |-> load_grid_df_for_year(fs, year)]]

\* The disk after one more save r of a handler that saves several years; ok
\* is lost once a save has failed.
AfterSave(D, r) == [D EXCEPT !.ok = @ /\ r.ok, !.dev = r.dev, !.book = r.book]

\* The saves of a handler that saves several years, in the order ys, on the
\* disk D = [ok, dev, book, exp].
RECURSIVE SaveYears(_, _, _, _, _)
SaveYears(ys, ss, D, fault, keys) ==
    IF ys = <<>> THEN D
    ELSE SaveYears(Tail(ys), ss,
            AfterSave(D, save_grid_df_for_year(ss[Head(ys)].grid, Head(ys), D, fault, keys)),
            fault, keys)

(***************************************************************************)
(* The booking import, grid ("wide") format.                               *)
(***************************************************************************)
\* A variant of the import that takes a token of any month for the column.
WidePartAnyMonth(p, month_en, import_year) ==
    LET m_full == TOKEN_DEV_RE(p)
    IN  IF m_full.matched
        THEN <<[year  |-> IntOf(m_full.g2),
                token |-> FormatG(Float(m_full.g1)) \o <<":">> \o IntStr(IntOf(m_full.g2))
                          \o <<";">> \o month_en]>>
        ELSE IF IsNumber(p)
        THEN <<[year  |-> import_year,
                token |-> FormatG(Float(p)) \o <<":">> \o IntStr(import_year)
                          \o <<";">> \o month_en]>>
        ELSE <<>>

\* What one part p of a cell of a column of month_en adds to the pending
\* grids: a token for a year, or nothing.
WidePart(p, month_en, import_year) ==
    LET m_full == TOKEN_DEV_RE(p)
    IN  IF m_full.matched
        THEN IF Upper(m_full.g3) # month_en THEN <<>>
             ELSE <<[year  |-> IntOf(m_full.g2),
                     token |-> FormatG(Float(m_full.g1)) \o <<":">>
                               \o IntStr(IntOf(m_full.g2)) \o <<";">> \o month_en]>>
        ELSE IF IsNumber(p)
        THEN <<[year  |-> import_year,
                token |-> FormatG(Float(p)) \o <<":">> \o IntStr(import_year)
                          \o <<";">> \o month_en]>>
        ELSE <<>>

RECURSIVE WideTokens(_, _, _)
WideTokens(parts, month_en, import_year) ==
    IF parts = <<>> THEN <<>>
    ELSE WidePart(Head(parts), month_en, import_year)
         \o WideTokens(Tail(parts), month_en, import_year)

\* The tokens found for a cell of pending[y], to be joined by commas.
TokenTexts(found) == [i \in 1..Len(found) |-> found[i].token]

\* pending[y] after the loop over the cells of a grid-format sheet.
WideGrid(sheet, y, import_year) ==
    [c \in Cells |->
        IF <<c[1], c[2]>> \in sheet.cols
        THEN Join(TokenTexts(SelectSeq(
                     WideTokens(StrippedParts(Split(Strip(sheet.cells[c]), ",")),
                                MONTH_EN(c[1]), import_year),
                     LAMBDA t : t.year = y)), ",")
        ELSE <<>>]

\* DAYS
DAYS == 1..31

\* MONTH_GR_FROM_EN.get(month_en_u): the Greek name of a month code, in a
\* sequence; the empty sequence when there is none.
MONTH_GR_FROM_EN(month_en_u) ==
    SelectSeq(MONTHS, LAMBDA m : MONTH_EN(m) = month_en_u)

\* The month of a long-format row, resolved: a Greek name of MONTHS as it is,
\* any other text through its upper case as a month code.
ResolveMonth(month_raw) ==
    IF month_raw.greek
    THEN (IF month_raw.name \in Range(MONTHS) THEN <<month_raw.name>> ELSE <<>>)
    ELSE MONTH_GR_FROM_EN(Upper(Strip(month_raw.name)))

\* The body of the loop over the rows of a long-format sheet: the row r gives
\* one token for the cell (month, floor, day) of the grid of its year, or is
\* skipped. A missing value (NaN) is the empty sequence; a price that is not
\* a number makes float() raise, and the row is skipped as well.
LongRow(r) ==
    IF r.year = <<>> THEN <<>>
    ELSE IF r.floor \notin Range(FLOORS_DISPLAY) THEN <<>>
    ELSE IF r.day = <<>> THEN <<>>
    ELSE IF r.day[1] \notin DAYS THEN <<>>
    ELSE IF ResolveMonth(r.month) = <<>> THEN <<>>
    ELSE IF r.price = <<>> THEN <<>>
    ELSE IF ~IsNumber(r.price) THEN <<>>
    ELSE <<[year  |-> r.year[1],
            cell  |-> <<ResolveMonth(r.month)[1], r.floor, r.day[1]>>,
            token |-> FormatG(Float(r.price)) \o <<":">> \o IntStr(r.year[1])
                      \o <<";">> \o MONTH_EN(ResolveMonth(r.month)[1])]>>

RECURSIVE LongTokens(_)
LongTokens(rows) ==
    IF rows = <<>> THEN <<>>
    ELSE LongRow(Head(rows)) \o LongTokens(Tail(rows))

\* pending[y] after the loop over the rows of a long-format sheet.
LongGrid(sheet, y) ==
    [c \in Cells |->
        Join(TokenTexts(SelectSeq(LongTokens(sheet.rows),
                                  LAMBDA t : t.year = y /\ t.cell = c)), ",")]

\* pending[y] of an uploaded sheet: is_long tells the two formats apart.
PendingGrid(sheet, y, import_year) ==
    IF sheet.is_long THEN LongGrid(sheet, y) ELSE WideGrid(sheet, y, import_year)

\* The keys of `pending` (the years a token was found for), ascending; the
\* sheets of the model name years of YEARS only.
PendingYears(sheet, import_year, import_multi_years) ==
    LET found == SelectSeq(YEARS, LAMBDA y : PendingGrid(sheet, y, import_year) # empty_grid)
    IN  IF found = <<>> /\ ~import_multi_years THEN <<import_year>> ELSE found

\* A variant of the merge that adds the imported tokens to the tokens a cell
\* has.
MergeGridTokenwise(base, new_grid, merge_mode) ==
    IF merge_mode = "replace" THEN new_grid
    ELSE [c \in Cells |-> IF Strip(new_grid[c]) = <<>> THEN base[c]
                          ELSE IF Strip(base[c]) = <<>> THEN new_grid[c]
                          ELSE base[c] \o <<",">> \o new_grid[c]]

\* The per-year merge of the import: the whole grid, or the non-blank cells.
MergeGrid(base, new_grid, merge_mode) ==
    IF merge_mode = "replace" THEN new_grid
    ELSE [c \in Cells |-> IF Strip(new_grid[c]) # <<>> THEN new_grid[c] ELSE base[c]]

RECURSIVE ApplyPending(_, _, _, _, _)
ApplyPending(ys, ss, fs, sheet, opt) ==
    IF ys = <<>> THEN ss
    ELSE ApplyPending(Tail(ys),
            [EnsureSessionGrid(ss, fs, Head(ys)) EXCEPT
               ![Head(ys)].grid = MergeGrid(@, PendingGrid(sheet, Head(ys), opt.import_year),
                                            opt.merge_mode)],
            fs, sheet, opt)

\* The end of the import: the years ys that were updated in the session ss1
\* are saved, if there is any.
ImportSave(ys, ss1, D, fault, keys) ==
    [session |-> ss1, saved |-> ys # <<>>]
        @@ SaveYears(ys, ss1, [ok |-> ys # <<>>] @@ D, fault, keys)

\* The import once the sheet has given the pending years ys: the grids are
\* put in the session, then saved.
ImportYears(ys, ss, D, sheet, opt, fault, keys) ==
    ImportSave(ys, ApplyPending(ys, EnsureSessionGrid(ss, D.dev, opt.import_year),
                                D.dev, sheet, opt),
               D, fault, keys)

\* The handler of the import button for a grid-format sheet, with the options
\* opt = [import_year, import_multi_years, merge_mode].
ImportWide(ss, D, sheet, opt, fault, keys) ==
    ImportYears(PendingYears(sheet, opt.import_year, opt.import_multi_years),
                ss, D, sheet, opt, fault, keys)

(***************************************************************************)
(* The expense import.                                                     *)
(***************************************************************************)
\* The body of the loop over the rows of a long-format expense sheet: the row
\* gives one token for the cell (month, floor) of the sheet of its year, or is
\* skipped. A row without a year takes expense_import_year.
ExpLongRow(r, expense_import_year) ==
    IF r.floor \notin Range(EXPENSE_FLOORS_DISPLAY) THEN <<>>
    ELSE IF ResolveMonth(r.month) = <<>> THEN <<>>
    ELSE IF r.price = <<>> THEN <<>>
    ELSE IF ~IsNumber(r.price) THEN <<>>
    ELSE LET y == IF r.year # <<>> THEN r.year[1] ELSE expense_import_year
         IN  <<[year  |-> y,
                cell  |-> <<ResolveMonth(r.month)[1], r.floor>>,
                token |-> FormatG(Float(r.price)) \o <<":">> \o IntStr(y) \o <<";">>
                          \o MONTH_EN(ResolveMonth(r.month)[1]) \o <<";">> \o EX]>>

RECURSIVE ExpLongTokens(_, _)
ExpLongTokens(rows, expense_import_year) ==
    IF rows = <<>> THEN <<>>
    ELSE ExpLongRow(Head(rows), expense_import_year)
         \o ExpLongTokens(Tail(rows), expense_import_year)

\* The body of the loop over the cells of a grid-format expense sheet: a bare
\* number is an expense of expense_import_year, an expense token of the row's
\* month is an expense of its own year, anything else is ignored.
ExpGridCell(raw, c, expense_import_year) ==
    LET val      == Strip(IF raw = <<>> THEN NaNText ELSE raw)
        month_en == MONTH_EN(c[1])
        mm       == TOKEN_DEV_RE(val)
    IN  IF IsNumber(val)
        THEN <<[year  |-> expense_import_year,
                cell  |-> c,
                token |-> FormatG(Float(val)) \o <<":">> \o IntStr(expense_import_year)
                          \o <<";">> \o month_en \o <<";">> \o EX]>>
        ELSE IF mm.matched /\ mm.g4 # None /\ Upper(mm.g4) = EX /\ Upper(mm.g3) = month_en
        THEN <<[year  |-> IntOf(mm.g2),
                cell  |-> c,
                token |-> FormatG(Float(mm.g1)) \o <<":">> \o IntStr(IntOf(mm.g2))
                          \o <<";">> \o Upper(mm.g3) \o <<";">> \o EX]>>
        ELSE <<>>

RECURSIVE ExpGridTokens(_, _, _)
ExpGridTokens(cells, cs, expense_import_year) ==
    IF cs = <<>> THEN <<>>
    ELSE ExpGridCell(cells[Head(cs)], Head(cs), expense_import_year)
         \o ExpGridTokens(cells, Tail(cs), expense_import_year)

\* The writes `out_df_y.at[month, floor] = token` of the import, in the order
\* they are made.
ExpTokens(sheet, expense_import_year) ==
    IF sheet.is_long THEN ExpLongTokens(sheet.rows, expense_import_year)
    ELSE ExpGridTokens(sheet.cells, ExpCellOrder, expense_import_year)

\* The keys of pending_exp in the order they were added: the years of the
\* writes, by first write.
RECURSIVE FirstYears(_, _)
FirstYears(found, seen) ==
    IF found = <<>> THEN <<>>
    ELSE IF Head(found).year \in seen THEN FirstYears(Tail(found), seen)
    ELSE <<Head(found).year>> \o FirstYears(Tail(found), seen \cup {Head(found).year})

\* The fallback when no year was found and the multi-year option is off.
PendingExpYears(found, opt) ==
    IF found = <<>> /\ ~opt.import_multi_years THEN <<opt.import_year>>
    ELSE FirstYears(found, {})

\* _get_out_df(y): the sheet the writes of year y start from.
GetOutDf(book, y, merge_mode) ==
    IF merge_mode = "replace" THEN EmptySheet ELSE load_monthly_expense_df(book, y)

\* pending_exp[y]: the writes of year y made on df one after the other, a
\* later write of a cell replacing an earlier one.
RECURSIVE ExpWrites(_, _, _)
ExpWrites(df, found, y) ==
    IF found = <<>> THEN df
    ELSE ExpWrites(IF Head(found).year = y THEN [df EXCEPT ![Head(found).cell] = Head(found).token]
                   ELSE df,
                   Tail(found), y)

\* The workbook after one more save r of the import; ok is lost once a save
\* has failed.
AfterExpSave(E, r) == [ok |-> E.ok /\ r.ok, book |-> r.book]

\* The save loop over pending_exp: each sheet, built from what the workbook
\* book0 held when the import began, is saved in the workbook the saves
\* before it left; E = [ok, book], opt = [import_year, import_multi_years,
\* merge_mode].
RECURSIVE SaveExpYears(_, _, _, _, _, _)
SaveExpYears(ys, found, E, book0, opt, fault) ==
    IF ys = <<>> THEN E
    ELSE SaveExpYears(Tail(ys), found,
            AfterExpSave(E, save_monthly_expense_df(Head(ys),
                               ExpWrites(GetOutDf(book0, Head(ys), opt.merge_mode),
                                         found, Head(ys)),
                               E.book, fault)),
            book0, opt, fault)

(***************************************************************************)
(* State.                                                                  *)
(***************************************************************************)
VARIABLES
    codec,                 \* the codec under test: its input, the text and the decoded tokens
    rec,                   \* one cell under the entry handlers: its text and the last entry
    session_state,         \* st.session_state["grid_df::{year}"], per year
    dev_files,             \* the files dev_{year}_{MONTH}.xlsx, per (year, month)
    bookings_xlsx,         \* bookings.xlsx: the sheets "bookings" and "expenses"
    monthly_expense_xlsx,  \* monthly_expense.xlsx: its sheets
    glob_order,            \* the order DATA_DIR.glob() lists the month files in
    event,                 \* the last handler that ran, its inputs and what it reported
    ops,                   \* the number of handlers that have run
    faults                 \* the number of handlers that met a failing write

codecVars == <<codec>>
cellVars  == <<rec>>
progVars  == <<session_state, dev_files, bookings_xlsx, monthly_expense_xlsx,
               glob_order, event, ops, faults>>
vars      == <<codec, rec, session_state, dev_files, bookings_xlsx,
               monthly_expense_xlsx, glob_order, event, ops, faults>>

NoEvent ==
    [op |-> "none", ok |-> FALSE, saved |-> FALSE, year |-> 0, fault |-> "none",
     sheet |-> 0, multi |-> FALSE, mode |-> "none", cell |-> <<>>, text |-> <<>>]

\* Nothing on disk, nothing in the session.
ProgramIdle ==
    /\ session_state = [y \in Range(YEARS) |-> NotLoaded]
    /\ dev_files = [k \in Range(FileKeysAsc) |-> NoFile]
    /\ bookings_xlsx = NoLedger
    /\ monthly_expense_xlsx = <<>>
    /\ event = NoEvent
    /\ ops = 0
    /\ faults = 0

CodecIdle == [pc |-> "idle", toks |-> <<>>, segs |-> <<>>, text |-> <<>>, out |-> <<>>]
RecIdle   == [op |-> "idle", kind |-> "none", cell |-> <<>>, prev |-> <<>>, entry |-> 0, year |-> 0]

(***************************************************************************)
(* The codec as pure functions: serialize_dev, then parse_dev_tokens.      *)
(***************************************************************************)
\* Prices of the token lists: a whole number, a fraction, and a whole number
\* of more than GPrecision digits.
CodecPrices == {Dec(80, 0), Dec(1205, 1), Dec(1234567, 0)}

CodecYears == {2023, 2024}

CodecMonths == {APRIL, MAY}

\* Well-formed tokens: non-negative price, 4-digit year, canonical month.
TokenUniverse ==
    {Token(p, y, m, k) : p \in CodecPrices, y \in CodecYears,
                         m \in CodecMonths, k \in {"REV", "EX"}}

FullKey(e) == <<e.year, e.month_en, e.kind>>

UniqueKeys(toks) ==
    \A i, j \in 1..Len(toks) : i # j => FullKey(toks[i]) # FullKey(toks[j])

SeqsUpTo(S, n) == UNION {[1..k -> S] : k \in 0..n}

TokenLists == {tl \in SeqsUpTo(TokenUniverse, MaxToks) : UniqueKeys(tl)}

\* Segments of a cell text, each with the tokens it is expected to decode to
\* under the grammar NUMBER:YYYY;UPPERWORD[;EX] (written down by hand, not
\* computed by the codec).
Specimens ==
    << [text |-> <<"1","0","0",":","2","0","2","4",";","A","P","R","I","L">>,
        tok  |-> <<Token(Dec(100, 0), 2024, APRIL, "REV")>>],
       [text |-> <<" ","5","0",":","2","0","2","4",";","M","A","Y",";","E","X">>,
        tok  |-> <<Token(Dec(50, 0), 2024, MAY, "EX")>>],
       [text |-> <<"1","2","0",".","5","0",":","2","0","2","3",";","M","A","Y"," ">>,
        tok  |-> <<Token(Dec(1205, 1), 2023, MAY, "REV")>>],
       [text |-> <<"1","0","0",":","2","0","2","4",";","F","O","O">>,
        tok  |-> <<Token(Dec(100, 0), 2024, <<"F","O","O">>, "REV")>>],
       [text |-> <<" ","g","a","r","b","a","g","e">>,                       tok |-> <<>>],
       [text |-> <<>>,                                                      tok |-> <<>>],
       [text |-> <<" ">>,                                                   tok |-> <<>>],
       [text |-> <<"1","0","0",":","2","4",";","A","P","R","I","L">>,       tok |-> <<>>],
       [text |-> <<"a","b","c",":","2","0","2","4",";","M","A","Y">>,       tok |-> <<>>],
       [text |-> <<"1","0","0",":","2","0","2","4",";","M","A","Y",";","X">>, tok |-> <<>>],
       [text |-> <<"1","0","0",":","2","0","2","4",";","m","a","y">>,       tok |-> <<>>],
       [text |-> <<"1","0","0"," ",":","2","0","2","4",";","M","A","Y">>,   tok |-> <<>>],
       [text |-> <<"1","e","+","0","6",":","2","0","2","4",";","M","A","Y">>, tok |-> <<>>],
       [text |-> <<"1","0","0",".",":","2","0","2","4",";","M","A","Y">>,   tok |-> <<>>],
       [text |-> <<"1","0","0">>,                                           tok |-> <<>>] >>

SegLists == SeqsUpTo(1..Len(Specimens), MaxSegs)

SegTexts(sl) == [i \in 1..Len(sl) |-> Specimens[sl[i]].text]

RECURSIVE Expected(_)
Expected(sl) ==
    IF sl = <<>> THEN <<>> ELSE Specimens[Head(sl)].tok \o Expected(Tail(sl))

InitCodec ==
    /\ rec = RecIdle
    /\ ProgramIdle
    /\ glob_order = "asc"
    /\ \/ \E tl \in TokenLists :
            codec = [CodecIdle EXCEPT !.pc = "toks", !.toks = tl]
       \/ \E sl \in SegLists :
            codec = [CodecIdle EXCEPT !.pc = "text", !.segs = sl,
                                      !.text = Join(SegTexts(sl), ",")]
       \/ codec = [CodecIdle EXCEPT !.pc = "text", !.text = None]

\* serialize_dev on the token list
Serialize ==
    /\ codec.pc = "toks"
    /\ codec' = [codec EXCEPT !.pc = "encoded", !.text = serialize_dev(codec.toks)]
    /\ UNCHANGED <<cellVars, progVars>>

\* parse_dev_tokens on the text
Parse ==
    /\ codec.pc \in {"text", "encoded"}
    /\ codec' = [codec EXCEPT !.pc = IF codec.pc = "text" THEN "decoded" ELSE "roundtrip",
                              !.out = parse_dev_tokens(codec.text)]
    /\ UNCHANGED <<cellVars, progVars>>

NextCodec == Serialize \/ Parse

SpecCodec == InitCodec /\ [][NextCodec]_vars

(***************************************************************************)
(* The entry handlers as functions of one cell: a cell of a day grid under *)
(* the booking form, a cell of an expense sheet under the expense form.    *)
(***************************************************************************)
\* The column of the cell: its month.
ApplyMonth == "Aprilios"

ApplyYears == {2023, 2024}

\* Segments the initial cell texts are made of.
CellSegments ==
    << <<"8","0",":","2","0","2","3",";","A","P","R","I","L">>,
       <<"9","0",":","2","0","2","3",";","A","P","R","I","L",";","E","X">>,
       <<"1","0","0",":","2","0","2","4",";","A","P","R","I","L">>,
       <<"5","0",":","2","0","2","4",";","A","P","R","I","L",";","E","X">>,
       <<"7","0",":","2","0","2","4",";","M","A","Y">>,
       <<" ","g","a","r","b","a","g","e">> >>

CellTexts ==
    {Join([i \in 1..Len(sl) |-> CellSegments[sl[i]]], ",") :
        sl \in SeqsUpTo(1..Len(CellSegments), MaxSegs)}

\* What the user may type in a cell's input, with the price it carries (written
\* down by hand): nothing, blanks, prices, a price of seven digits, no number,
\* and two comma-separated tokens (the handler takes the first number it finds).
Entries ==
    << [text |-> <<>>,                                price |-> <<>>],
       [text |-> <<" ", " ">>,                        price |-> <<>>],
       [text |-> <<"1","5","0">>,                     price |-> <<Dec(150, 0)>>],
       [text |-> <<" ","1","2",".","5","0">>,         price |-> <<Dec(125, 1)>>],
       [text |-> <<"1","2","3","4","5","6","7">>,     price |-> <<Dec(1234567, 0)>>],
       [text |-> <<"a","b","c">>,                     price |-> <<>>],
       [text |-> <<"1","0","0",":","2","0","2","4",";","A","P","R","I","L",",",
                   "5","0",":","2","0","2","3",";","A","P","R","I","L">>,
                                                      price |-> <<Dec(100, 0)>>] >>

InitApply ==
    /\ codec = CodecIdle
    /\ ProgramIdle
    /\ glob_order = "asc"
    /\ \E c \in CellTexts, k \in {"grid", "expense"} :
         rec = [RecIdle EXCEPT !.op = "init", !.kind = k, !.cell = c, !.prev = c]

\* The booking form's handler on the cell, for one selected year and one input.
ApplyBooking ==
    /\ rec.kind = "grid"
    /\ \E y \in ApplyYears, n \in 1..Len(Entries) :
         rec' = [rec EXCEPT !.op = "booking", !.prev = rec.cell, !.entry = n, !.year = y,
                   !.cell = BookingCellUpdate(rec.cell, Entries[n].text, y, ApplyMonth)]
    /\ UNCHANGED <<codecVars, progVars>>

\* The expense form's handler on the cell.
ApplyExpense ==
    /\ rec.kind = "expense"
    /\ \E y \in ApplyYears, n \in 1..Len(Entries) :
         rec' = [rec EXCEPT !.op = "expense", !.prev = rec.cell, !.entry = n, !.year = y,
                   !.cell = ExpenseCellUpdate(rec.cell, Entries[n].text, y, ApplyMonth)]
    /\ UNCHANGED <<codecVars, progVars>>

NextApply == ApplyBooking \/ ApplyExpense

SpecApply == InitApply /\ [][NextApply]_vars

(***************************************************************************)
(* The program: one session of the app over the files of DATA_DIR.         *)
(*                                                                         *)
(* Each action is one run of the script with one button pressed. The year  *)
(* selectors are inputs of the handlers; the script loads the grid of a    *)
(* selected year into the session when it is not there yet, and the model  *)
(* does so when a handler first uses the year (a year's files change only  *)
(* through its session grid, so loading later reads the same files).       *)
(* The files are those the program wrote: DATA_DIR starts empty.           *)
(***************************************************************************)
\* The years the selectors are set to.
ModelYears == {2023, 2024}

\* The cells the user types in, and what they type (entries of Entries): a
\* price, and a price of seven digits.
FormCells == {<<"Aprilios", "Isogeio", 1>>, <<"Aprilios", "A", 31>>, <<"Maios", "Isogeio", 1>>}

FormEntryIds == {3, 5}

\* What a failing disk does to a grid save, and to an expense save.
GridFaults == {"first_month", "later_month", "ledger"}

ExpenseFaults == {"expenses", "ledger"}

OneCell(c, t) == [x \in Cells |-> IF x = c THEN t ELSE <<>>]

\* The uploaded grid-format sheets, after astype("string"): the grid columns
\* they have and the text of their cells.
\*  1: no grid column at all;
\*  2: April cells holding a token of May, one next to a token of April;
\*  3: a May cell holding an expense token;
\*  4: an April cell holding a token of 2023 and a bare number;
\*  5: an April cell holding two tokens of the same year and month.
WideSheets ==
    << [is_long |-> FALSE, rows |-> <<>>, cols |-> {}, cells |-> empty_grid],
       [is_long |-> FALSE, rows |-> <<>>,
        cols  |-> {<<"Aprilios", "Isogeio">>, <<"Aprilios", "A">>},
        cells |-> [x \in Cells |->
                     IF x = <<"Aprilios", "Isogeio", 1>>
                     THEN <<"1", "0", "0", ":", "2", "0", "2", "4", ";", "A", "P", "R", "I", "L", ",", "5", "5", ":", "2", "0", "2", "4", ";", "M", "A", "Y">>
                     ELSE IF x = <<"Aprilios", "A", 31>>
                     THEN <<"5", "5", ":", "2", "0", "2", "4", ";", "M", "A", "Y">>
                     ELSE <<>>]],
       [is_long |-> FALSE, rows |-> <<>>,
        cols  |-> {<<"Maios", "Isogeio">>},
        cells |-> OneCell(<<"Maios", "Isogeio", 1>>,
                     <<"6", "0", ":", "2", "0", "2", "4", ";", "M", "A", "Y", ";", "E", "X">>)],
       [is_long |-> FALSE, rows |-> <<>>,
        cols  |-> {<<"Aprilios", "Isogeio">>},
        cells |-> OneCell(<<"Aprilios", "Isogeio", 1>>,
                     <<"8", "0", ":", "2", "0", "2", "3", ";", "A", "P", "R", "I", "L", ",", " ", "9", "0">>)],
       [is_long |-> FALSE, rows |-> <<>>,
        cols  |-> {<<"Aprilios", "Isogeio">>},
        cells |-> OneCell(<<"Aprilios", "Isogeio", 1>>,
                     <<"7", "0", ":", "2", "0", "2", "4", ";", "A", "P", "R", "I", "L", ",", "7", "5", ":", "2", "0", "2", "4", ";", "A", "P", "R", "I", "L">>)] >>

\* A row of a long-format sheet (columns year, floor, month, day, price); a
\* missing value is the empty sequence.
LongRowOf(year, floor, month, day, price) ==
    [year |-> year, floor |-> floor, month |-> month, day |-> day, price |-> price]

Greek(name) == [greek |-> TRUE, name |-> name]

Latin(name) == [greek |-> FALSE, name |-> name]

\* The uploaded long-format sheets:
\*  1: a row of floor "G" between two good rows, the second one for the
\*     31st of April with the month in English;
\*  2: a row without a year before a good row;
\*  3: rows of an unknown month, of day 32, without a price and with a price
\*     that is no number, before a good row;
\*  4: two rows for the same year, floor, month and day.
LongSheets ==
    << [is_long |-> TRUE, cols |-> {}, cells |-> empty_grid,
        rows |-> << LongRowOf(<<2024>>, "A", Greek("Maios"), <<1>>, <<"1", "0", "0">>),
                    LongRowOf(<<2024>>, "G", Greek("Maios"), <<1>>, <<"5", "0">>),
                    LongRowOf(<<2024>>, "Isogeio", Latin(<<"a", "p", "r", "i", "l">>), <<31>>,
                              <<"8", "0">>) >>],
       [is_long |-> TRUE, cols |-> {}, cells |-> empty_grid,
        rows |-> << LongRowOf(<<>>, "A", Greek("Maios"), <<1>>, <<"7", "0">>),
                    LongRowOf(<<2023>>, "A", Greek("Maios"), <<31>>, <<"6", "0">>) >>],
       [is_long |-> TRUE, cols |-> {}, cells |-> empty_grid,
        rows |-> << LongRowOf(<<2024>>, "A", Latin(<<"F", "o", "o">>), <<1>>, <<"4", "0">>),
                    LongRowOf(<<2024>>, "A", Greek("Maios"), <<32>>, <<"4", "1">>),
                    LongRowOf(<<2024>>, "A", Greek("Maios"), <<1>>, <<>>),
                    LongRowOf(<<2024>>, "A", Greek("Maios"), <<1>>, <<"a", "b", "c">>),
                    LongRowOf(<<2024>>, "A", Greek("Maios"), <<1>>, <<"9", "0">>) >>],
       [is_long |-> TRUE, cols |-> {}, cells |-> empty_grid,
        rows |-> << LongRowOf(<<2024>>, "A", Greek("Maios"), <<1>>, <<"1", "0", "0">>),
                    LongRowOf(<<2024>>, "A", Greek("Maios"), <<1>>, <<"1", "1", "0">>) >>] >>

\* The sheets the user may upload.
Uploads == WideSheets \o LongSheets

Disk == [dev |-> dev_files, book |-> bookings_xlsx, exp |-> monthly_expense_xlsx]

Keys == IF glob_order = "asc" THEN FileKeysAsc ELSE FileKeysDesc

Init ==
    /\ codec = CodecIdle
    /\ rec = RecIdle
    /\ ProgramIdle
    /\ glob_order \in {"asc", "desc"}

\* A handler may run, meeting the fault or none ...
CanRun(fault) ==
    /\ ops < MaxOps
    /\ fault # "none" => faults < MaxFaults

\* ... and has run.
Count(fault) ==
    /\ ops' = ops + 1
    /\ faults' = IF fault = "none" THEN faults ELSE faults + 1

\* What the user types in the booking form: a text in one of the cells, or
\* nothing at all.
FormInputs ==
    {<<c, Entries[n].text>> : c \in FormCells, n \in FormEntryIds}
        \cup {<<<<"Aprilios", "Isogeio", 1>>, <<>>>>}

\* The handler of the booking form for current_year with the text v typed in
\* the cell c (every other input left blank): the cell is reconciled, the grid
\* is put in the session and saved.
FormSubmitWith(current_year, c, v, fault) ==
    \E ss1 \in {EnsureSessionGrid(session_state, dev_files, current_year)} :
    \E updated \in {[ss1[current_year].grid EXCEPT
                       ![c] = BookingCellUpdate(@, v, current_year, c[1])]} :
    \E r \in {save_grid_df_for_year(updated, current_year, Disk, fault, Keys)} :
        /\ session_state' = [ss1 EXCEPT ![current_year].grid = updated]
        /\ dev_files' = r.dev
        /\ bookings_xlsx' = r.book
        /\ event' = [NoEvent EXCEPT !.op = "form", !.ok = r.ok, !.saved = TRUE,
                                    !.year = current_year, !.fault = fault,
                                    !.cell = c, !.text = v]

\* The booking form is submitted.
FormSubmit ==
    /\ \E current_year \in ModelYears, fault \in {"none"} \cup GridFaults :
         /\ CanRun(fault)
         /\ Count(fault)
         /\ \E cv \in FormInputs : FormSubmitWith(current_year, cv[1], cv[2], fault)
    /\ UNCHANGED <<codec, rec, monthly_expense_xlsx, glob_order>>

\* The settings of the multi-year checkbox that tell imports apart: the
\* handler reads it only when the sheet gave no token for any year.
MultiYearChoices(sheet, import_year) ==
    IF PendingYears(sheet, import_year, TRUE) = <<>> THEN BOOLEAN ELSE {TRUE}

\* The import button is pressed with a grid-format sheet uploaded.
ImportSheet ==
    /\ \E n \in 1..Len(Uploads), import_year \in ModelYears,
          merge_mode \in {"replace", "merge"}, fault \in {"none"} \cup GridFaults :
       /\ CanRun(fault)
       /\ \E import_multi_years \in MultiYearChoices(Uploads[n], import_year) :
          \E r \in {ImportWide(session_state, Disk, Uploads[n],
                        [import_year |-> import_year,
                         import_multi_years |-> import_multi_years,
                         merge_mode |-> merge_mode], fault, Keys)} :
             /\ Count(fault)
             /\ session_state' = r.session
             /\ dev_files' = r.dev
             /\ bookings_xlsx' = r.book
             /\ event' = [NoEvent EXCEPT !.op = "import", !.ok = r.ok, !.saved = r.saved,
                                         !.year = import_year, !.fault = fault,
                                         !.sheet = n, !.multi = import_multi_years,
                                         !.mode = merge_mode]
    /\ UNCHANGED <<codec, rec, monthly_expense_xlsx, glob_order>>

\* A variant of the clearing that blanks the column of the first floor only.
ClearedGridFirstFloor(base, month_to_clear) ==
    [c \in Cells |-> IF c[1] = month_to_clear /\ c[2] = FLOORS_DISPLAY[1] THEN <<>>
                      ELSE base[c]]

\* The grid `base` with the columns of month_to_clear, one per floor, blanked.
ClearedGrid(base, month_to_clear) ==
    [c \in Cells |-> IF c[1] = month_to_clear /\ c[2] \in Range(FLOORS_DISPLAY) THEN <<>>
                      ELSE base[c]]

\* "Clear the month": the three columns of the month are blanked in the
\* session grid of clear_year; nothing is saved.
ClearMonth ==
    /\ CanRun("none")
    /\ \E clear_year \in ModelYears, month_to_clear \in Range(GridMonths) :
         /\ session_state' =
              [EnsureSessionGrid(session_state, dev_files, clear_year) EXCEPT
                 ![clear_year].grid = ClearedGrid(@, month_to_clear)]
         /\ event' = [NoEvent EXCEPT !.op = "clear_month", !.year = clear_year,
                                     !.cell = <<month_to_clear>>]
    /\ Count("none")
    /\ UNCHANGED <<codec, rec, dev_files, bookings_xlsx, monthly_expense_xlsx, glob_order>>

\* "Clear all the months of the year": the session grid of clear_year becomes
\* the empty grid; nothing is saved.
ClearYear ==
    /\ CanRun("none")
    /\ \E clear_year \in ModelYears :
         /\ session_state' = [session_state EXCEPT
                                ![clear_year] = [loaded |-> TRUE, grid |-> empty_grid]]
         /\ event' = [NoEvent EXCEPT !.op = "clear_year", !.year = clear_year]
    /\ Count("none")
    /\ UNCHANGED <<codec, rec, dev_files, bookings_xlsx, monthly_expense_xlsx, glob_order>>

AllCleared == [y \in Range(YEARS) |-> [loaded |-> TRUE, grid |-> empty_grid]]

\* "Clear all the months of all the years": every year of YEARS gets the empty
\* grid in the session and is saved.
ClearAllYears ==
    /\ \E fault \in {"none"} \cup GridFaults :
         /\ CanRun(fault)
         /\ \E r \in {SaveYears(YEARS, AllCleared, [ok |-> TRUE] @@ Disk, fault, Keys)} :
             /\ Count(fault)
             /\ session_state' = AllCleared
             /\ dev_files' = r.dev
             /\ bookings_xlsx' = r.book
             /\ event' = [NoEvent EXCEPT !.op = "clear_all", !.ok = r.ok,
                                         !.saved = TRUE, !.fault = fault]
    /\ UNCHANGED <<codec, rec, monthly_expense_xlsx, glob_order>>

\* The cells of the expense form the user types in.
ExpenseFormCells == {<<"Aprilios", "A">>, <<"Maios", "Genika">>}

\* The handler of the expense form for exp_year with the text v typed in the
\* cell c: the sheet of the year is saved and, when that worked, the combined
\* workbook is written again with the bookings it had.
ExpenseFormWith(exp_year, c, v, fault) ==
    \E out_df \in {[load_monthly_expense_df(monthly_expense_xlsx, exp_year) EXCEPT
                      ![c] = ExpenseCellUpdate(@, v, exp_year, c[1])]} :
    \E r \in {save_monthly_expense_df(exp_year, out_df, monthly_expense_xlsx, fault)} :
        /\ monthly_expense_xlsx' = r.book
        /\ bookings_xlsx' = IF r.ok
                            THEN RefreshCombined([Disk EXCEPT !.exp = r.book], fault)
                            ELSE bookings_xlsx
        /\ event' = [NoEvent EXCEPT !.op = "expense", !.ok = r.ok,
                                    !.year = exp_year, !.fault = fault,
                                    !.cell = c, !.text = v]

\* The expense form is submitted.
ExpenseFormSubmit ==
    /\ \E exp_year \in ModelYears, c \in ExpenseFormCells, n \in FormEntryIds,
          fault \in {"none"} \cup ExpenseFaults :
         /\ CanRun(fault)
         /\ Count(fault)
         /\ ExpenseFormWith(exp_year, c, Entries[n].text, fault)
    /\ UNCHANGED <<codec, rec, session_state, dev_files, glob_order>>

\* A row of a long-format expense sheet (columns year, floor, month, price).
ExpRowOf(year, floor, month, price) ==
    [year |-> year, floor |-> floor, month |-> month, price |-> price]

\* The uploaded expense sheets:
\*  1: long format: a row without a year, a row of an unknown floor, and two
\*     rows of 2023 for the same month and floor;
\*  2: grid format: a bare number, an expense token of 2023, and an expense
\*     token of another month than its row;
\*  3: grid format, nothing in it.
ExpenseUploads ==
    << [is_long |-> TRUE, cells |-> EmptySheet,
        rows |-> << ExpRowOf(<<>>, "A", Greek("Aprilios"), <<"2", "0", "0">>),
                    ExpRowOf(<<2023>>, "D", Greek("Maios"), <<"5", "0">>),
                    ExpRowOf(<<2023>>, "Genika", Greek("Maios"), <<"3", "0", "0">>),
                    ExpRowOf(<<2023>>, "Genika", Latin(<<"m", "a", "y">>), <<"2", "5", "0">>) >>],
       [is_long |-> FALSE, rows |-> <<>>,
        cells |-> [c \in ExpCells |->
                     IF c = <<"Aprilios", "A">> THEN <<"1", "2", "0">>
                     ELSE IF c = <<"Aprilios", "Genika">>
                     THEN <<"9", "0", ":", "2", "0", "2", "4", ";", "M", "A", "Y", ";", "E", "X">>
                     ELSE IF c = <<"Maios", "A">>
                     THEN <<"8", "0", ":", "2", "0", "2", "3", ";", "M", "A", "Y", ";", "E", "X">>
                     ELSE <<>>]],
       [is_long |-> FALSE, rows |-> <<>>, cells |-> EmptySheet] >>

\* The handler of the expense import with the sheet and the options opt =
\* [import_year, import_multi_years, merge_mode]: the sheets of the years
\* found are saved and the combined workbook is written again with the
\* bookings it had; nothing is written when no year is pending.
ExpenseImportWith(n, opt, fault) ==
    \E found \in {ExpTokens(ExpenseUploads[n], opt.import_year)} :
    \E ys \in {PendingExpYears(found, opt)} :
    \E E \in {SaveExpYears(ys, found, [ok |-> TRUE, book |-> monthly_expense_xlsx],
                           monthly_expense_xlsx, opt, fault)} :
        /\ monthly_expense_xlsx' = E.book
        /\ bookings_xlsx' = IF ys # <<>>
                            THEN RefreshCombined([Disk EXCEPT !.exp = E.book], fault)
                            ELSE bookings_xlsx
        /\ event' = [NoEvent EXCEPT !.op = "expense_import", !.ok = E.ok,
                                    !.year = opt.import_year, !.fault = fault,
                                    !.sheet = n, !.multi = opt.import_multi_years,
                                    !.mode = opt.merge_mode]

\* The settings of the multi-year checkbox that tell expense imports apart.
ExpMultiYearChoices(n, expense_import_year) ==
    IF ExpTokens(ExpenseUploads[n], expense_import_year) = <<>> THEN BOOLEAN ELSE {TRUE}

\* The expense import button is pressed with a sheet uploaded.
ExpenseImport ==
    /\ \E n \in 1..Len(ExpenseUploads), expense_import_year \in ModelYears,
          merge_mode_exp \in {"replace", "merge"}, fault \in {"none"} \cup ExpenseFaults :
         /\ CanRun(fault)
         /\ Count(fault)
         /\ \E import_multi_years_exp \in ExpMultiYearChoices(n, expense_import_year) :
              ExpenseImportWith(n, [import_year |-> expense_import_year,
                                    import_multi_years |-> import_multi_years_exp,
                                    merge_mode |-> merge_mode_exp], fault)
    /\ UNCHANGED <<codec, rec, session_state, dev_files, glob_order>>

\* The browser session ends and another begins: st.session_state is new.
NewSession ==
    /\ CanRun("none")
    /\ session_state # [y \in Range(YEARS) |-> NotLoaded]
    /\ Count("none")
    /\ session_state' = [y \in Range(YEARS) |-> NotLoaded]
    /\ event' = [NoEvent EXCEPT !.op = "new_session"]
    /\ UNCHANGED <<codec, rec, dev_files, bookings_xlsx, monthly_expense_xlsx, glob_order>>

Next ==
    \/ FormSubmit
    \/ ImportSheet
    \/ ClearMonth
    \/ ClearYear
    \/ ClearAllYears
    \/ ExpenseFormSubmit
    \/ ExpenseImport
    \/ NewSession

Spec == Init /\ [][Next]_vars

(***************************************************************************)
(* build_expenses_long on a workbook written outside the app.              *)
(*                                                                         *)
(* monthly_expense.xlsx is a workbook the user can edit; the function       *)
(* accepts bare numbers as well as tokens in its cells.                    *)
(***************************************************************************)
\* What a cell of the row of month_gr may hold: nothing, a bare number, an
\* expense token of 2024 and the row's month, a revenue token.
SheetTexts(month_gr) ==
    { <<>>,
      <<"1", "2", "0">>,
      <<"8", "0", ":", "2", "0", "2", "4", ";">> \o MONTH_EN(month_gr) \o <<";">> \o EX,
      <<"7", "0", ":", "2", "0", "2", "4", ";">> \o MONTH_EN(month_gr) }

\* The sheets of one year with such cells.
EditedSheets == {df \in [ExpCells -> UNION {SheetTexts(m) : m \in Range(GridMonths)}] :
                    \A c \in ExpCells : df[c] \in SheetTexts(c[1])}

InitExpenses ==
    /\ codec = CodecIdle
    /\ rec = RecIdle
    /\ session_state = [y \in Range(YEARS) |-> NotLoaded]
    /\ dev_files = [k \in Range(FileKeysAsc) |-> NoFile]
    /\ bookings_xlsx = NoLedger
    /\ \E y \in ModelYears, df \in EditedSheets :
         monthly_expense_xlsx = <<[year |-> y, cells |-> df]>>
    /\ event = NoEvent
    /\ ops = 0
    /\ faults = 0
    /\ glob_order = "asc"

\* The combined workbook is written: its sheet "expenses" is
\* build_expenses_long().
RebuildExpenses ==
    /\ ~bookings_xlsx.exists
    /\ bookings_xlsx' = RefreshCombined(Disk, "none")
    /\ UNCHANGED <<codec, rec, session_state, dev_files, monthly_expense_xlsx, glob_order,
                   event, ops, faults>>

NextExpenses == RebuildExpenses

SpecExpenses == InitExpenses /\ [][NextExpenses]_vars

(***************************************************************************)
(* Properties of the entry handlers (SpecApply).                           *)
(***************************************************************************)
\* What the last entry was about.
EntryKey   == <<rec.year, MONTH_EN(ApplyMonth), "REV">>
EntryPrice == Entries[rec.entry].price
CellBefore == parse_dev_tokens(rec.prev)
CellAfter  == parse_dev_tokens(rec.cell)

\* C2: after any sequence of booking entries on a cell, no two tokens of the
\* cell share a (year, month, kind) key, and an entry carrying a price for a key
\* that already had a token leaves exactly one token for that key, with the
\* entered price.
EntryKeepsKeysUnique ==
    rec.op = "booking" =>
        /\ UniqueKeys(CellAfter)
        /\ (EntryPrice # <<>> /\ \E i \in 1..Len(CellBefore) : FullKey(CellBefore[i]) = EntryKey)
             => \E i \in 1..Len(CellAfter) :
                   /\ FullKey(CellAfter[i]) = EntryKey
                   /\ CellAfter[i].price = EntryPrice[1]
                   /\ \A j \in 1..Len(CellAfter) : FullKey(CellAfter[j]) = EntryKey => j = i

EntryKeepsOtherYears ==
    (rec.op = "booking" /\ EntryPrice # <<>> /\ UniqueKeys(CellBefore)) =>
        /\ \A e \in Range(CellBefore) : e.year # rec.year => e \in Range(CellAfter)
        /\ Token(EntryPrice[1], rec.year, MONTH_EN(ApplyMonth), "REV") \in Range(CellAfter)

\* C5: an empty or whitespace-only entry leaves the text of the cell as it was,
\* in the booking form and in the expense form, whatever the cell held.
BlankEntryChangesNothing ==
    (rec.op \in {"booking", "expense"} /\ Entries[rec.entry].text \in {<<>>, <<" ", " ">>})
        => rec.cell = rec.prev

\* A whitespace-only booking entry met a cell holding a token of the entry's own
\* year and month, and another token.
BlankEntryOnFilledCell ==
    /\ rec.op = "booking"
    /\ Entries[rec.entry].text = <<" ", " ">>
    /\ Len(CellBefore) = 2
    /\ \E i \in 1..2 : FullKey(CellBefore[i]) = EntryKey

(***************************************************************************)
(* Properties of the codec (SpecCodec).                                    *)
(***************************************************************************)
\* C6: for every list of well-formed tokens with unique (year, month, kind)
\* keys, parse_dev_tokens(serialize_dev(tokens)) is the same set of tokens.
RoundTrip ==
    codec.pc = "roundtrip" => Range(codec.out) = Range(codec.toks)

\* C7: decoding drops every segment that does not match the token grammar,
\* returns the tokens of the matching segments in their order, and returns the
\* empty list for empty and for null input.
DecodeDropsMalformed ==
    codec.pc = "decoded" => codec.out = Expected(codec.segs)

\* A text with a malformed segment before a well-formed one has been decoded.
DecodedAroundGarbage ==
    /\ codec.pc = "decoded"
    /\ Len(codec.segs) = 2
    /\ Specimens[codec.segs[1]].tok = <<>>
    /\ Specimens[codec.segs[1]].text # <<>>
    /\ Specimens[codec.segs[2]].tok # <<>>
    /\ Len(codec.out) = 1

\* C8: every decoded token has one of the twelve canonical month codes.
DecodedMonthsAreCanonical ==
    codec.pc = "decoded" =>
        \A i \in 1..Len(codec.out) : codec.out[i].month_en \in CanonicalMonths

(***************************************************************************)
(* Properties of the program (Spec).                                       *)
(***************************************************************************)
\* The rows the month files stand for: one per token of each cell of each
\* file, with the file's month, the cell's floor and day, the token's year
\* and price.
DerivedRows ==
    UNION {UNION {{Row(e.year, c[1], k[2], c[2], e.price) :
                      e \in Range(parse_dev_tokens(dev_files[k].cells[c]))} :
                  c \in FileCells} :
           k \in {x \in DOMAIN dev_files : dev_files[x].exists}}

\* C1: whenever a grid save has reported success (in the booking form, the
\* import or the clearing of all years), the sheet "bookings" of bookings.xlsx
\* holds exactly the rows the month files of all years stand for, each once.
LedgerFollowsFiles ==
    (event.saved /\ event.ok) =>
        /\ bookings_xlsx.exists
        /\ Range(bookings_xlsx.bookings) = DerivedRows
        /\ Len(bookings_xlsx.bookings) = Cardinality(DerivedRows)

\* The options and the fault of the import that has just run.
ImportOptions(e) ==
    [import_year |-> e.year, import_multi_years |-> e.multi, merge_mode |-> e.mode]

\* A full token in a cell of a column of another month than its own.
Mismatched(p, month_en) ==
    TOKEN_DEV_RE(p).matched /\ Upper(TOKEN_DEV_RE(p).g3) # month_en

HasMismatched(sheet) ==
    \E c \in Cells :
       \E p \in Range(StrippedParts(Split(sheet.cells[c], ","))) :
          Mismatched(p, MONTH_EN(c[1]))

\* The sheet without the tokens that sit in a column of another month.
WithoutMismatched(sheet) ==
    [sheet EXCEPT !.cells =
        [c \in Cells |->
            Join(SelectSeq(StrippedParts(Split(sheet.cells[c], ",")),
                           LAMBDA p : ~Mismatched(p, MONTH_EN(c[1]))), ",")]]

ExpenseToken(p) == TOKEN_DEV_RE(p).matched /\ TOKEN_DEV_RE(p).g4 = EX

HasExpenses(sheet) ==
    \E c \in Cells :
       \E p \in Range(StrippedParts(Split(sheet.cells[c], ","))) : ExpenseToken(p)

\* The sheet without its expense tokens.
WithoutExpenses(sheet) ==
    [sheet EXCEPT !.cells =
        [c \in Cells |->
            Join(SelectSeq(StrippedParts(Split(sheet.cells[c], ",")),
                           LAMBDA p : ~ExpenseToken(p)), ",")]]

\* C10: an expense token (suffix ;EX) in a cell of an imported grid sheet
\* gives no row of the bookings ledger and no revenue token: the import ends
\* with the ledger, the month files and the session grids it would have ended
\* with had the sheet not held the expense tokens.
ExpenseTokensGiveNoBooking ==
    [][(event'.op = "import" /\ HasExpenses(Uploads[event'.sheet])) =>
         \A r \in {ImportWide(session_state, Disk, WithoutExpenses(Uploads[event'.sheet]),
                              ImportOptions(event'), event'.fault, Keys)} :
            /\ bookings_xlsx' = r.book
            /\ dev_files' = r.dev
            /\ session_state' = r.session]_vars

\* No row of the sequence comes before the row in front of it.
Ascending(rows) ==
    \A i \in 1..(Len(rows) - 1) : ~RowBefore(rows[i + 1], rows[i])

\* C11: the ledger rebuilt from the month files is the same whichever way the
\* files are enumerated, its rows are in ascending (year, month, floor, day)
\* order, and it is the ledger a save that met no failing write has left.
LedgerIsDeterministic ==
    /\ LedgerRebuild(dev_files, FileKeysAsc) = LedgerRebuild(dev_files, FileKeysDesc)
    /\ Ascending(LedgerRebuild(dev_files, Keys))
    /\ (event.saved /\ event.ok /\ event.fault = "none")
          => bookings_xlsx.bookings = LedgerRebuild(dev_files, FileKeysAsc)

\* A save has left a ledger of several rows from month files whose records
\* come in another order when the files are enumerated the other way round.
LedgerOfSeveralFiles ==
    /\ event.saved /\ event.ok /\ event.fault = "none"
    /\ Len(bookings_xlsx.bookings) >= 2
    /\ ScanFiles(dev_files, FileKeysAsc) # ScanFiles(dev_files, FileKeysDesc)

\* The months a long-format row names, in Greek or in English (any case).
RowMonths(r) ==
    {m \in Range(MONTHS) : \/ r.month.greek /\ r.month.name = m
                           \/ ~r.month.greek /\ Upper(r.month.name) = MONTH_EN(m)}

\* A long-format row with a floor of the grid, a month, a day of 1..31 and a
\* numeric price ...
ValidBesidesYear(r) ==
    /\ r.floor \in {"Isogeio", "A", "B"}
    /\ RowMonths(r) # {}
    /\ r.day # <<>> /\ r.day[1] \in 1..31
    /\ r.price # <<>> /\ IsNumber(r.price)

\* ... and a year.
ValidRow(r) == r.year # <<>> /\ ValidBesidesYear(r)

\* The last handler was the import of a long-format sheet.
LongSheetImported == event.op = "import" /\ Uploads[event.sheet].is_long

\* C12: after the import of a long-format sheet, every valid row of the sheet
\* has its token in its cell of the grid of its year, whatever invalid rows
\* the sheet holds besides, and, when the save has reported success, its row
\* in the ledger.
ValidRowsAreImported ==
    LongSheetImported =>
        \A r \in {x \in Range(Uploads[event.sheet].rows) : ValidRow(x)} :
           \A m \in RowMonths(r) :
              /\ Token(Float(r.price), r.year[1], MONTH_EN(m), "REV")
                    \in Range(parse_dev_tokens(
                                session_state[r.year[1]].grid[<<m, r.floor, r.day[1]>>]))
              /\ (event.saved /\ event.ok)
                    => Row(r.year[1], r.floor, m, r.day[1], Float(r.price))
                         \in Range(bookings_xlsx.bookings)

\* The grid of year y the program has in memory, or loads as soon as it
\* looks at the year.
InMemoryGrid(ss, fs, y) == EnsureSessionGrid(ss, fs, y)[y].grid

\* A sheet that is neither long-format nor has a column of the grid.
Unrecognized(sheet) == ~sheet.is_long /\ sheet.cols = {}

\* C13: the import of a sheet that is neither long-format nor grid-format
\* with recognized columns writes nothing: the month files, the ledger and
\* the in-memory grid of every year are after it what they were before, for
\* every merge mode and setting of the multi-year option.
UnrecognizedSheetWritesNothing ==
    [][(event'.op = "import" /\ Unrecognized(Uploads[event'.sheet])) =>
         /\ dev_files' = dev_files
         /\ bookings_xlsx' = bookings_xlsx
         /\ \A y \in Range(YEARS) :
               InMemoryGrid(session_state', dev_files', y)
                 = InMemoryGrid(session_state, dev_files, y)]_vars

\* The grid the sheet of the import that has just run gives for year y.
Imported(e, y) == PendingGrid(Uploads[e.sheet], y, e.year)

\* The years the sheet gives a token for.
YearsInFile(e) == {y \in Range(YEARS) : Imported(e, y) # empty_grid}

\* C14: a merge-mode import is cell by cell: in the grid of every year the
\* sheet has a token for, a cell with a non-blank imported value holds
\* exactly that value afterwards and a cell with a blank imported value holds
\* what it held before.
MergeIsCellByCell ==
    [][(event'.op = "import" /\ event'.mode = "merge") =>
         \A y \in YearsInFile(event') :
            \A c \in Cells :
               session_state'[y].grid[c] =
                  IF Strip(Imported(event', y)[c]) # <<>>
                  THEN Imported(event', y)[c]
                  ELSE InMemoryGrid(session_state, dev_files, y)[c]]_vars

\* A merge-mode import of the third long-format sheet into a grid of 2024
\* that held tokens in two cells: the cell the sheet has a row for holds the
\* imported token in place of its own, the other one still holds its own.
MergedOverFilledGrid ==
    /\ event.op = "import" /\ event.mode = "merge"
    /\ event.sheet = Len(WideSheets) + 3
    /\ session_state[2024].grid[<<"Maios", "A", 1>>]
          = <<"9", "0", ":", "2", "0", "2", "4", ";", "M", "A", "Y">>
    /\ session_state[2024].grid[<<"Aprilios", "Isogeio", 31>>]
          = <<"8", "0", ":", "2", "0", "2", "4", ";", "A", "P", "R", "I", "L">>

\* C15: a replace-mode import makes the grid of every year the sheet has a
\* token for the grid built from the sheet alone (the supplied cells hold the
\* imported tokens, every other cell is empty), and leaves the grid of every
\* other year as it was.
ReplaceTakesTheFileAlone ==
    [][(event'.op = "import" /\ event'.mode = "replace") =>
         \A y \in Range(YEARS) :
            IF y \in YearsInFile(event')
            THEN session_state'[y].grid = Imported(event', y)
            ELSE InMemoryGrid(session_state', dev_files', y)
                   = InMemoryGrid(session_state, dev_files, y)]_vars

\* The session after the booking form's edit of cell c of year y with the
\* text v, whatever becomes of the save.
Edited(y, c, v) ==
    [EnsureSessionGrid(session_state, dev_files, y) EXCEPT
        ![y].grid[c] = BookingCellUpdate(@, v, y, c[1])]

\* C16: a grid save that meets a failing write, of a month file or of the
\* combined workbook, reports a failure, never success, and after a booking
\* form whose save failed the in-memory grid holds the user's edits.
FailedSaveIsReported ==
    [][(event'.saved /\ event'.fault # "none") =>
         /\ ~event'.ok
         /\ event'.op = "form" =>
               \E cv \in FormInputs : session_state' = Edited(event'.year, cv[1], cv[2])]_vars

\* The values of the text of the last entry, decoded.
EnteredValues == parse_dev_tokens(Entries[rec.entry].text)

\* C17: when the text entered in a cell of the booking form holds several
\* comma-separated values, each of them is afterwards a token of the cell
\* under its own (year, month, kind) key.
SeveralValuesAreAllKept ==
    (rec.op = "booking" /\ Len(EnteredValues) > 1) =>
        \A t \in Range(EnteredValues) : t \in Range(CellAfter)

\* The tokens of a cell text under the key (year, month_en).
TokensOf(text, year, month_en) ==
    SelectSeq(parse_dev_tokens(text), LAMBDA e : e.year = year /\ e.month_en = month_en)

\* C18: a bare number typed in the booking form in the cell (M, F, D) while
\* year Y is selected is afterwards exactly one revenue token of that price,
\* of year Y and of the month code of M in that cell of the grid of Y, and
\* no other cell of any grid has changed.
BareNumberIsOneToken ==
    [][(event'.op = "form" /\ IsNumber(Strip(event'.text))) =>
         /\ TokensOf(session_state'[event'.year].grid[event'.cell],
                     event'.year, MONTH_EN(event'.cell[1]))
              = <<Token(Float(Strip(event'.text)), event'.year,
                        MONTH_EN(event'.cell[1]), "REV")>>
         /\ \A y \in Range(YEARS), c \in Cells :
               (y # event'.year \/ c # event'.cell) =>
                  InMemoryGrid(session_state', dev_files', y)[c]
                    = InMemoryGrid(session_state, dev_files, y)[c]]_vars

\* A day the month does not have in the calendar.
NoSuchDay(month_gr, day) ==
    \/ month_gr \in {"Aprilios", "Iounios", "Septemvrios", "Noemvrios"} /\ day > 30
    \/ month_gr = "Fevrouarios" /\ day > 29

\* C19: a cell of a day its month does not have (the 31st of April) holds no
\* token, in the grids of the session and in the month files, and no row of
\* the ledger is of such a day.
NoTokenOnMissingDays ==
    /\ \A y \in Range(YEARS), c \in Cells :
          NoSuchDay(c[1], c[3]) =>
             /\ parse_dev_tokens(session_state[y].grid[c]) = <<>>
             /\ parse_dev_tokens(dev_files[<<y, c[1]>>].cells[<<c[2], c[3]>>]) = <<>>
    /\ \A r \in Range(bookings_xlsx.bookings) : ~NoSuchDay(r.month, r.day)

\* The bare numbers of a cell of a grid-format sheet.
BareNumbers(sheet, c) ==
    IF <<c[1], c[2]>> \in sheet.cols
    THEN {p \in Range(StrippedParts(Split(sheet.cells[c], ","))) : IsNumber(p)}
    ELSE {}

\* The rows of a long-format sheet that have no year and lack nothing else.
RowsWithoutYear(sheet) ==
    {r \in Range(sheet.rows) : r.year = <<>> /\ ValidBesidesYear(r)}

\* C20: every imported record without a year of its own, a bare number in a
\* cell of a grid-format sheet or a long-format row whose year is empty, is
\* after the import a token of the import year in its cell of the grid of
\* that year.
YearlessRecordsTakeTheImportYear ==
    [][event'.op = "import" =>
         /\ \A c \in Cells : \A p \in BareNumbers(Uploads[event'.sheet], c) :
               Token(Float(p), event'.year, MONTH_EN(c[1]), "REV")
                  \in Range(parse_dev_tokens(session_state'[event'.year].grid[c]))
         /\ \A r \in RowsWithoutYear(Uploads[event'.sheet]) : \A m \in RowMonths(r) :
               Token(Float(r.price), event'.year, MONTH_EN(m), "REV")
                  \in Range(parse_dev_tokens(
                              session_state'[event'.year].grid[<<m, r.floor, r.day[1]>>]))]_vars

\* The key of a row of the expense ledger.
ExpKey(r) == <<r.year, r.month, r.floor>>

\* The rows of the sheet "expenses" of a ledger that have the key k.
ExpRowsOf(ledger, k) == SelectSeq(ledger.expenses, LAMBDA r : ExpKey(r) = k)

\* The expenses a long-format row and a cell of a grid-format sheet state:
\* [key, price], at most one.
StatedByRow(r, expense_import_year) ==
    IF /\ r.floor \in Range(EXPENSE_FLOORS_DISPLAY)
       /\ ResolveMonth(r.month) # <<>>
       /\ r.price # <<>> /\ IsNumber(r.price)
    THEN <<[key   |-> <<IF r.year = <<>> THEN expense_import_year ELSE r.year[1],
                        ResolveMonth(r.month)[1], r.floor>>,
            price |-> Float(r.price)]>>
    ELSE <<>>

StatedByCell(text, c, expense_import_year) ==
    LET val == Strip(text)
        mm  == TOKEN_DEV_RE(val)
    IN  IF IsNumber(val)
        THEN <<[key |-> <<expense_import_year, c[1], c[2]>>, price |-> Float(val)]>>
        ELSE IF mm.matched /\ mm.g4 = EX /\ mm.g3 = MONTH_EN(c[1])
        THEN <<[key |-> <<IntOf(mm.g2), c[1], c[2]>>, price |-> Float(mm.g1)]>>
        ELSE <<>>

\* The expenses the handler of the event e was given, in the order given.
RECURSIVE StatedByRows(_, _)
StatedByRows(rows, y) ==
    IF rows = <<>> THEN <<>> ELSE StatedByRow(Head(rows), y) \o StatedByRows(Tail(rows), y)

RECURSIVE StatedByCells(_, _, _)
StatedByCells(cells, cs, y) ==
    IF cs = <<>> THEN <<>>
    ELSE StatedByCell(cells[Head(cs)], Head(cs), y) \o StatedByCells(cells, Tail(cs), y)

Stated(e) ==
    IF e.op = "expense"
    THEN (IF IsNumber(Strip(e.text))
          THEN <<[key |-> <<e.year, e.cell[1], e.cell[2]>>, price |-> Float(Strip(e.text))]>>
          ELSE <<>>)
    ELSE IF e.op = "expense_import"
    THEN (IF ExpenseUploads[e.sheet].is_long
          THEN StatedByRows(ExpenseUploads[e.sheet].rows, e.year)
          ELSE StatedByCells(ExpenseUploads[e.sheet].cells, ExpCellOrder, e.year))
    ELSE <<>>

\* The price stated last for the key k, in a sequence; empty when none was.
LastStated(st, k) ==
    LET mine == SelectSeq(st, LAMBDA x : x.key = k)
    IN  IF mine = <<>> THEN <<>> ELSE <<mine[Len(mine)].price>>

\* The years an import in "replace all" mode writes anew.
Replaced(e, st) ==
    IF e.op = "expense_import" /\ e.mode = "replace"
    THEN {x.key[1] : x \in Range(st)} \cup (IF st = <<>> /\ ~e.multi THEN {e.year} ELSE {})
    ELSE {}

ExpenseKeys == {<<y, c[1], c[2]>> : y \in Range(YEARS), c \in ExpCells}

ExpenseWrite(e) == e.op \in {"expense", "expense_import"} /\ e.ok

\* The expense ledger after e, for the key k: the price stated last when one
\* was stated, no row when the year was replaced, the rows it had otherwise.
KeepsLastPrice(before, after, e, st, k) ==
    /\ Len(ExpRowsOf(after, k)) <= 1
    /\ IF LastStated(st, k) # <<>>
       THEN /\ Len(ExpRowsOf(after, k)) = 1
            /\ ExpRowsOf(after, k)[1].price = LastStated(st, k)[1]
       ELSE IF k[1] \in Replaced(e, st) THEN ExpRowsOf(after, k) = <<>>
       ELSE ExpRowsOf(after, k) = ExpRowsOf(before, k)

\* C21: after every expense-form save and every expense import that reports
\* success, in either merge mode, the sheet "expenses" of bookings.xlsx has at
\* most one row per (year, month, category); the row of a key the handler was
\* given a price for carries the price given last, and every other row is the
\* row the sheet had (or is gone, when the import replaced its year).
ExpenseLedgerKeepsLastPrice ==
    [][ExpenseWrite(event') =>
          \A k \in ExpenseKeys :
             KeepsLastPrice(bookings_xlsx, bookings_xlsx', event', Stated(event'), k)]_vars

\* The cells of the grids in memory and of the month files that hold two
\* tokens of one (year, month, kind).
RepeatsInMemory ==
    {<<y, c>> \in Range(YEARS) \X Cells :
        ~UniqueKeys(parse_dev_tokens(session_state[y].grid[c]))}

RepeatsInFiles ==
    {<<k, c>> \in (DOMAIN dev_files) \X FileCells :
        ~UniqueKeys(parse_dev_tokens(dev_files[k].cells[c]))}

\* C22: in every reachable state no cell of a grid, in memory or in a month
\* file, holds two tokens of the same (year, month, kind); an import whose
\* rows or tokens repeat a key leaves one token of the key in the cell.
NoCellRepeatsAKey == RepeatsInMemory = {} /\ RepeatsInFiles = {}

\* The prices the uploaded sheet states for the cell c of year y, in the
\* order of the file: one per valid row of a long-format sheet, one per token
\* of the cell of a grid-format sheet.
RecordsFor(sheet, y, c) ==
    IF sheet.is_long
    THEN LET mine == SelectSeq(sheet.rows,
                       LAMBDA r : /\ ValidRow(r)
                                  /\ r.year[1] = y /\ r.floor = c[2] /\ r.day[1] = c[3]
                                  /\ c[1] \in RowMonths(r))
         IN  [i \in 1..Len(mine) |-> Float(mine[i].price)]
    ELSE IF <<c[1], c[2]>> \in sheet.cols
    THEN LET mine == SelectSeq(parse_dev_tokens(sheet.cells[c]),
                       LAMBDA e : e.year = y /\ e.month_en = MONTH_EN(c[1]))
         IN  [i \in 1..Len(mine) |-> mine[i].price]
    ELSE <<>>

\* The rows of the ledger for the cell c of year y.
LedgerRowsOf(ledger, y, c) ==
    SelectSeq(ledger.bookings,
              LAMBDA r : r.year = y /\ r.month = c[1] /\ r.floor = c[2] /\ r.day = c[3])

\* The cells the sheet of the import that has just run has several records
\* for.
RepeatedCoordinates(e) ==
    {yc \in Range(YEARS) \X Cells : Len(RecordsFor(Uploads[e.sheet], yc[1], yc[2])) >= 2}

\* C23: when the imported file has several records for one (year, floor,
\* month, day) and the import's save has reported success, the ledger has
\* exactly one row for that coordinate, with the price of the record that
\* comes last in the file.
LastRecordWins ==
    (event.op = "import" /\ event.saved /\ event.ok) =>
        \A yc \in RepeatedCoordinates(event) :
           /\ Len(LedgerRowsOf(bookings_xlsx, yc[1], yc[2])) = 1
           /\ LedgerRowsOf(bookings_xlsx, yc[1], yc[2])[1].price
                = RecordsFor(Uploads[event.sheet], yc[1], yc[2])
                     [Len(RecordsFor(Uploads[event.sheet], yc[1], yc[2]))]

\* The last handler saved grids: the booking form the grid of its year, the
\* import the grids of the years it updated.
GridSave(e) == e.op \in {"form", "import"} /\ e.saved

SavedYears(e) ==
    IF e.op = "form" THEN {e.year}
    ELSE Range(PendingYears(Uploads[e.sheet], e.year, e.multi))

\* The month files of year y, and the rows of the ledger of year y.
FilesOfYear(fs, y) == [m \in Range(GridMonths) |-> fs[<<y, m>>]]

LedgerRowsOfYear(ledger, y) == SelectSeq(ledger.bookings, LAMBDA r : r.year = y)

\* C24: a save of the grid of year Y writes the month files of Y only: the
\* month files of every other year are what they were, and so are the rows
\* of every other year in the ledger.
SaveTouchesOnlyItsYear ==
    [][GridSave(event') =>
         \A y \in Range(YEARS) \ SavedYears(event') :
            /\ FilesOfYear(dev_files', y) = FilesOfYear(dev_files, y)
            /\ LedgerRowsOfYear(bookings_xlsx', y) = LedgerRowsOfYear(bookings_xlsx, y)]_vars

\* C25: clearing month M of year Y empties the cells of M, for every floor
\* and day, in the in-memory grid of Y and changes nothing else: the other
\* months of Y, the in-memory grids of the other years, the month files, the
\* ledger and the expense workbook are what they were.
ClearMonthTouchesOnlyItsMonth ==
    [][event'.op = "clear_month" =>
         /\ \A c \in Cells :
               InMemoryGrid(session_state', dev_files', event'.year)[c]
                 = IF c[1] = event'.cell[1] THEN <<>>
                   ELSE InMemoryGrid(session_state, dev_files, event'.year)[c]
         /\ \A y \in Range(YEARS) \ {event'.year} :
               InMemoryGrid(session_state', dev_files', y)
                 = InMemoryGrid(session_state, dev_files, y)
         /\ dev_files' = dev_files
         /\ bookings_xlsx' = bookings_xlsx
         /\ monthly_expense_xlsx' = monthly_expense_xlsx]_vars

\* A month has been cleared in memory while its file still holds a token on
\* the floor A.
ClearedMonthStillOnDisk ==
    /\ event.op = "clear_month"
    /\ \E d \in Range(GridDays) :
          dev_files[<<event.year, event.cell[1]>>].cells[<<"A", d>>] # <<>>
    /\ \A c \in Cells :
          c[1] = event.cell[1] => session_state[event.year].grid[c] = <<>>

\* C26: once the clearing of all the months of all the years has ended
\* without reporting an error, every cell of the grids of 2022..2025 is empty
\* in memory and in the month files, and the ledger has no booking row of
\* any of these years.
ClearAllEmptiesEverything ==
    (event.op = "clear_all" /\ event.ok) =>
        /\ \A y \in Range(YEARS) : InMemoryGrid(session_state, dev_files, y) = empty_grid
        /\ \A k \in DOMAIN dev_files : \A c \in FileCells : dev_files[k].cells[c] = <<>>
        /\ \A i \in 1..Len(bookings_xlsx.bookings) :
              bookings_xlsx.bookings[i].year \notin Range(YEARS)

\* The years whose expense sheet the handler of the event e saves.
SavedExpYears(e) ==
    IF e.op = "expense" THEN {e.year}
    ELSE Range(PendingExpYears(ExpTokens(ExpenseUploads[e.sheet], e.year),
                               ImportOptions(e)))

\* C27: a save of the expenses of year Y (by the expense form, or by the
\* expense import for the years it found) changes the expense entries of Y
\* only: the expense sheet of every other year holds the cells it held, and
\* the booking rows of bookings.xlsx are after the refresh what they were.
ExpenseSaveTouchesOnlyItsYear ==
    [][event'.op \in {"expense", "expense_import"} =>
         /\ \A y \in Range(YEARS) \ SavedExpYears(event') :
               load_monthly_expense_df(monthly_expense_xlsx', y)
                 = load_monthly_expense_df(monthly_expense_xlsx, y)
         /\ load_bookings_df(bookings_xlsx') = load_bookings_df(bookings_xlsx)]_vars

\* The expenses of a year have been saved while the workbook holds an expense
\* of another year.
ExpensesOfTwoYears ==
    /\ event.op = "expense" /\ event.ok
    /\ \E y \in Range(YEARS) \ {event.year} :
          load_monthly_expense_df(monthly_expense_xlsx, y) # EmptySheet
    /\ load_monthly_expense_df(monthly_expense_xlsx, event.year) # EmptySheet

\* What the booking form shows for the cell c of year y: the placeholder of
\* its input.
Shown(y, c) == display_price_for_year_month(session_state[y].grid[c], y, MONTH_EN(c[1]))

\* The form and the ledger agree on the cell c of year y.
ShownIsInLedger(y, c) ==
    IF Shown(y, c) = <<>> THEN LedgerRowsOf(bookings_xlsx, y, c) = <<>>
    ELSE /\ Len(LedgerRowsOf(bookings_xlsx, y, c)) = 1
         /\ FormatG(LedgerRowsOf(bookings_xlsx, y, c)[1].price) = Shown(y, c)

\* C28: after a save of year Y that has reported success, the price the form
\* shows for a cell of Y is the price of the ledger row of (Y, floor, month,
\* day), and the form shows no price exactly when the ledger has no such row.
FormShowsTheLedger ==
    (GridSave(event) /\ event.ok) =>
        \A y \in SavedYears(event) : \A c \in Cells : ShownIsInLedger(y, c)

(***************************************************************************)
(* Properties of build_expenses_long (SpecExpenses).                       *)
(***************************************************************************)
\* The cells of the sheet that hold a bare number.
BareCells(sheet) == {c \in ExpCells : IsNumber(Strip(sheet.cells[c]))}

\* C29: every row build_expenses_long makes of a bare-number cell of the
\* sheet of year Y has the year Y and the month of the cell's row, whatever
\* the other cells of the sheet hold.
BareRowsKeepTheSheetYear ==
    bookings_xlsx.exists =>
        \A c \in BareCells(monthly_expense_xlsx[1]) :
           \E r \in Range(bookings_xlsx.expenses) :
              /\ r.year = monthly_expense_xlsx[1].year
              /\ r.month = c[1] /\ r.floor = c[2]
              /\ r.price = Float(Strip(monthly_expense_xlsx[1].cells[c]))

(***************************************************************************)
(* Save and load (Spec).                                                   *)
(***************************************************************************)
\* The canonical token of the last entry of year y and month m_en in the
\* cell text, or nothing when the cell has no such entry.
CanonicalLast(text, y, m_en) ==
    LET mine == SelectSeq(parse_dev_tokens(text),
                          LAMBDA e : e.year = y /\ e.month_en = m_en)
    IN  IF mine = <<>> THEN <<>>
        ELSE FormatG(mine[Len(mine)].price) \o <<":">> \o IntStr(y) \o <<";">> \o m_en

\* The grid of year y saved and loaded once more.
SavedAndLoaded(grid, y) ==
    load_grid_df_for_year(WriteMonths(dev_files, grid, y, Len(GridMonths)), y)

\* C30: after a save of the in-memory grid of year Y that has reported
\* success, loading Y gives a grid whose every cell holds the canonical token
\* of the last (Y, column month) entry of the saved cell, or nothing when the
\* saved cell had none; saving and loading that grid again gives the same
\* grid.
SaveLoadNormalises ==
    (GridSave(event) /\ event.ok) =>
        \A y \in SavedYears(event) :
           /\ load_grid_df_for_year(dev_files, y)
                = [c \in Cells |-> CanonicalLast(session_state[y].grid[c], y, MONTH_EN(c[1]))]
           /\ SavedAndLoaded(load_grid_df_for_year(dev_files, y), y)
                = load_grid_df_for_year(dev_files, y)

\* A grid with a cell of two entries of one year and month has been saved:
\* what is loaded is not what was saved.
SavedGridWasNormalised ==
    /\ GridSave(event) /\ event.ok
    /\ \E y \in SavedYears(event) :
          /\ <<y, <<"Maios", "A", 1>>>> \in RepeatsInMemory
          /\ load_grid_df_for_year(dev_files, y) # session_state[y].grid

=============================================================================
